---------------------------- MODULE Spec2Model ----------------------------
(***************************************************************************)
(* Model of the STC collaborative subtitling server: the fragment (slot)   *)
(* scheduler, the submission gate, the fusion engine and the control       *)
(* surface (web/src/services.js, web/src/core.js, web/src/websocket.js,    *)
(* web/src/routes.js).                                                     *)
(*                                                                         *)
(* Time is the server clock in milliseconds.  Node runs the handlers one   *)
(* at a time, so every handler and every timer callback is one action.     *)
(* Timers fire at their due time; two timers due at the same millisecond   *)
(* fire in either order.                                                   *)
(*                                                                         *)
(* A text is a sequence of one-character strings, so that trim, tokenize,  *)
(* detokenize and the Levenshtein similarity are computed character by     *)
(* character as the code computes them.                                    *)
(***************************************************************************)
EXTENDS Integers, Sequences, FiniteSets, TLC

\* ------------------------------------------------------------------------
\* Bounds of the exploration (not program constants)
\* ------------------------------------------------------------------------

\* the clock stops advancing here (ms)
MaxTime == 5000

\* captions accepted per run
MaxCaptions == 2

\* HTTP requests of the admin in one behaviour
MaxAdminOps == 2

\* joins, leaves and disconnects in one behaviour
MaxRosterOps == 2

\* how long after a grace end the late caption of a subtitler arrives (ms);
\* it is less than the 800 ms the finalize waits
LateArrivalMs == 300

\* the number of segments the transcoder writes
MaxSegments == 12

\* ------------------------------------------------------------------------
\* Program constants
\* ------------------------------------------------------------------------

segmentDuration == 2

\* config.hlsListSize: the number of segments of a served playlist
hlsListSize == 10

\* milliseconds per second, the factor of every setTimeout delay
MsPerSec == 1000

maxDelay == 300

defaultDelay == 20

defaultSlotDuration == 30

defaultOverlapDuration == 5

defaultNotifyBefore == 5

defaultGracePeriodPercent == 20

defaultRequiredSubtitlers == 2

\* the settle delay between grace end and processSlotEnd (ms)
FinalizeSettleMs == 800

\* findOverlap looks at no more than 15 tokens
MaxOverlapWords == 15

\* Infinity, returned by getFragmentMinRequiredSubtitlers when stride <= 0
Infinity == 1000000

\* caption text is cut to 500 code units
MaxCaptionLen == 500

\* ------------------------------------------------------------------------
\* Sequence helpers
\* ------------------------------------------------------------------------

Min(a, b) == IF a <= b THEN a ELSE b

Max(a, b) == IF a >= b THEN a ELSE b

\* Array.prototype.slice(n): the elements from index n (0-based) on
SliceFrom(s, n) == IF n >= Len(s) THEN << >> ELSE SubSeq(s, n + 1, Len(s))

\* ------------------------------------------------------------------------
\* Text utilities (services.js: FUSION ENGINE)
\* ------------------------------------------------------------------------

Space == " "

IsSpace(c) == c = Space

\* The three non-ASCII marks of the code's character classes, each one
\* character of the text: the ellipsis and the two guillemets.
Ellipsis == "<ellipsis>"

RightGuillemet == "<raquo>"

LeftGuillemet == "<laquo>"

\* FRENCH_PUNCTUATION = /([.,!?;:(ellipsis)(raquo)(laquo)"'])/g
FRENCH_PUNCTUATION ==
  {".", ",", "!", "?", ";", ":", Ellipsis, RightGuillemet, LeftGuillemet, "\"", "'"}

\* the class of the first replace of detokenize: / ([.,!?;:(ellipsis)(raquo)"'])/g
ClosingPunct == {".", ",", "!", "?", ";", ":", Ellipsis, RightGuillemet, "\"", "'"}

\* the class of the second replace of detokenize: /([(laquo)"']) /g
OpeningPunct == {LeftGuillemet, "\"", "'"}

\* String.prototype.toLowerCase on one character
ToLowerChar(c) ==
  CASE c = "A" -> "a" [] c = "B" -> "b" [] c = "C" -> "c" [] c = "L" -> "l"
    [] c = "M" -> "m" [] c = "N" -> "n" [] c = "T" -> "t"
    [] OTHER -> c

toLowerCase(w) == [i \in 1..Len(w) |-> ToLowerChar(w[i])]

RECURSIVE TrimLeft(_)
TrimLeft(t) ==
  IF t = << >> THEN << >>
  ELSE IF IsSpace(Head(t)) THEN TrimLeft(Tail(t)) ELSE t

RECURSIVE TrimRight(_)
TrimRight(t) ==
  IF t = << >> THEN << >>
  ELSE IF IsSpace(t[Len(t)]) THEN TrimRight(SubSeq(t, 1, Len(t) - 1)) ELSE t

\* String.prototype.trim
Trim(t) == TrimRight(TrimLeft(t))

\* Array.prototype.join(' ') on a sequence of texts
RECURSIVE JoinSpace(_)
JoinSpace(ws) ==
  IF ws = << >> THEN << >>
  ELSE IF Len(ws) = 1 THEN ws[1]
  ELSE ws[1] \o <<Space>> \o JoinSpace(Tail(ws))

\* text.replace(FRENCH_PUNCTUATION, ' $1 '): blanks around each punctuation mark
RECURSIVE SpacePunctuation(_)
SpacePunctuation(t) ==
  IF t = << >> THEN << >>
  ELSE IF Head(t) \in FRENCH_PUNCTUATION
       THEN <<Space, Head(t), Space>> \o SpacePunctuation(Tail(t))
       ELSE <<Head(t)>> \o SpacePunctuation(Tail(t))

\* split(/\s+/).filter(w => w.length > 0); cur is the word being read
RECURSIVE SplitWords(_, _)
SplitWords(t, cur) ==
  IF t = << >> THEN (IF cur = << >> THEN << >> ELSE <<cur>>)
  ELSE IF IsSpace(Head(t))
       THEN (IF cur = << >> THEN << >> ELSE <<cur>>) \o SplitWords(Tail(t), << >>)
       ELSE SplitWords(Tail(t), Append(cur, Head(t)))

\* A faulty variant of tokenize that splits on white space only, leaving the
\* punctuation attached to the words
tokenizeOnWhitespace(text) ==
  IF text = << >> THEN << >> ELSE SplitWords(text, << >>)

tokenize(text) ==
  IF text = << >> THEN << >> ELSE SplitWords(SpacePunctuation(text), << >>)

\* first replace of detokenize: a blank followed by a closing mark goes
RECURSIVE DropSpaceBefore(_)
DropSpaceBefore(t) ==
  IF t = << >> THEN << >>
  ELSE IF Len(t) >= 2 /\ IsSpace(t[1]) /\ t[2] \in ClosingPunct
       THEN <<t[2]>> \o DropSpaceBefore(SliceFrom(t, 2))
       ELSE <<t[1]>> \o DropSpaceBefore(Tail(t))

\* second replace of detokenize: a blank that follows an opening mark goes
RECURSIVE DropSpaceAfter(_)
DropSpaceAfter(t) ==
  IF t = << >> THEN << >>
  ELSE IF Len(t) >= 2 /\ t[1] \in OpeningPunct /\ IsSpace(t[2])
       THEN <<t[1]>> \o DropSpaceAfter(SliceFrom(t, 2))
       ELSE <<t[1]>> \o DropSpaceAfter(Tail(t))

detokenize(words) ==
  IF words = << >> THEN << >>
  ELSE Trim(DropSpaceAfter(DropSpaceBefore(JoinSpace(words))))

\* One row of the Levenshtein table: row i from row i-1 (prev), for a[i] = ch.
\* prev and the result are indexed 1..n+1 for the columns j = 0..n.
RECURSIVE LevRow(_, _, _, _, _)
LevRow(prev, b, ch, i, acc) ==
  IF Len(acc) = Len(b) + 1 THEN acc
  ELSE LET j == Len(acc)
           v == IF ch = b[j]
                THEN prev[j]
                ELSE 1 + Min(prev[j + 1], Min(acc[j], prev[j]))
       IN LevRow(prev, b, ch, i, Append(acc, v))

RECURSIVE LevRows(_, _, _, _)
LevRows(a, b, i, prev) ==
  IF i > Len(a) THEN prev[Len(b) + 1]
  ELSE LevRows(a, b, i + 1, LevRow(prev, b, a[i], i, <<i>>))

\* dp[m][n] of wordSimilarity
Levenshtein(a, b) == LevRows(a, b, 1, [j \in 1..(Len(b) + 1) |-> j - 1])

\* wordSimilarity(w1, w2) >= 0.8, the only use the code makes of it.
\* 1 - d / max(m, n) >= 0.8 exactly when 5 * d <= max(m, n).
SimilarWords(w1, w2) ==
  LET a == toLowerCase(w1)
      b == toLowerCase(w2)
  IN IF a = b THEN TRUE
     ELSE IF Len(a) = 0 \/ Len(b) = 0 THEN FALSE
     ELSE 5 * Levenshtein(a, b) <= Max(Len(a), Len(b))

\* A faulty variant of OverlapMatches that compares the first k tokens of seq1,
\* not its last k
OverlapMatchesFromStart(seq1, seq2, k) ==
  Cardinality({i \in 0..(k - 1) : SimilarWords(seq1[i + 1], seq2[i + 1])})

\* the number of positions of the candidate overlap of length k that match
OverlapMatches(seq1, seq2, k) ==
  Cardinality({i \in 0..(k - 1) :
                 SimilarWords(seq1[Len(seq1) - k + i + 1], seq2[i + 1])})

\* A faulty variant of FindOverlapFrom that asks for a match ratio of 0.8
RECURSIVE FindOverlapFromStrict(_, _, _, _, _)
FindOverlapFromStrict(seq1, seq2, k, maxOverlap, best) ==
  IF k > maxOverlap THEN best
  ELSE IF 10 * OverlapMatches(seq1, seq2, k) >= 8 * k /\ k > best
       THEN FindOverlapFromStrict(seq1, seq2, k + 1, maxOverlap, k)
       ELSE FindOverlapFromStrict(seq1, seq2, k + 1, maxOverlap, best)

\* the loop of findOverlap from overlapLen = k on, best being bestLength
RECURSIVE FindOverlapFrom(_, _, _, _, _)
FindOverlapFrom(seq1, seq2, k, maxOverlap, best) ==
  IF k > maxOverlap THEN best
  ELSE IF 10 * OverlapMatches(seq1, seq2, k) >= 7 * k /\ k > best
       THEN FindOverlapFrom(seq1, seq2, k + 1, maxOverlap, k)
       ELSE FindOverlapFrom(seq1, seq2, k + 1, maxOverlap, best)

\* A faulty variant of findOverlap whose loop stops one length short of
\* maxOverlap
findOverlapOneShort(seq1, seq2) ==
  IF Len(seq1) = 0 \/ Len(seq2) = 0 THEN 0
  ELSE FindOverlapFrom(seq1, seq2, 1,
                       Min(Len(seq1), Min(Len(seq2), MaxOverlapWords)) - 1, 0)

\* findOverlap(seq1, seq2).overlapLength
findOverlap(seq1, seq2) ==
  IF Len(seq1) = 0 \/ Len(seq2) = 0 THEN 0
  ELSE FindOverlapFrom(seq1, seq2, 1,
                       Min(Len(seq1), Min(Len(seq2), MaxOverlapWords)), 0)


\* findOverlap(seq1, seq2).overlapWords: seq1.slice(startInSeq1) of the best
\* length, [] when there is none
findOverlapWords(seq1, seq2) ==
  LET bestLength == findOverlap(seq1, seq2)
  IN IF bestLength = 0 THEN << >> ELSE SliceFrom(seq1, Len(seq1) - bestLength)

\* ------------------------------------------------------------------------
\* Inputs
\* ------------------------------------------------------------------------

\* connection ids (ws.odId); a connection that closed never comes back,
\* a client that reconnects gets a new id
Subs == {"s1", "s2", "s3"}

SubRank == [s \in Subs |-> CHOOSE k \in 1..3 : s = <<"s1", "s2", "s3">>[k]]

NoSub == "none"

NoSlot == -1

\* the texts subtitlers type: "a b", "b c" and a blank
TextAB == <<"a", " ", "b">>

TextBC == <<"b", " ", "c">>

TextBlank == <<" ">>

CaptionTexts == {TextAB, TextBC, TextBlank}

\* the texts of the runs that exercise findOverlap: sixteen different words,
\* "a b" again, the same overlap typed with a capital, and two texts whose
\* four words agree but for the first
TextSixteen ==
  <<"a", " ", "b", " ", "c", " ", "d", " ", "e", " ", "f", " ", "g", " ",
    "h", " ", "i", " ", "j", " ", "k", " ", "l", " ", "m", " ", "n", " ",
    "o", " ", "p">>

TextCapitalBC == <<"B", " ", "c">>

TextABCD == <<"a", " ", "b", " ", "c", " ", "d">>

TextZBCD == <<"z", " ", "b", " ", "c", " ", "d">>

OverlapTexts == {TextSixteen, TextAB, TextCapitalBC, TextABCD, TextZBCD}

\* finalText: null of a slot that has not been emitted
NullText == <<"<null>">>

\* bodies of POST /api/live/start (source and mode are always given);
\* a field that is absent from the record is absent from the JSON body
StartBodies ==
  { [delaySec |-> 2, slotDuration |-> 2, overlapDuration |-> 1, notifyBefore |-> 1,
     gracePeriodPercent |-> 0, requiredSubtitlers |-> 2],
    [delaySec |-> 4, slotDuration |-> 4, overlapDuration |-> 2, notifyBefore |-> 1,
     gracePeriodPercent |-> 0, requiredSubtitlers |-> 2] }

\* bodies of POST /api/fragment/config
ConfigBodies ==
  { [slotDuration |-> 1, overlapDuration |-> 0],
    [slotDuration |-> 3, overlapDuration |-> 0] }

\* bodies of POST /api/delay
DelayValues == {3}

Has(body, field) == field \in DOMAIN body

\* ------------------------------------------------------------------------
\* State (core.js: state)
\* ------------------------------------------------------------------------

VARIABLES
  now,          \* Date.now(), ms
  ffmpegProc,   \* state.ffmpegProc !== null
  starting,     \* POST /api/live/start is awaiting startLive
  currentMode,  \* state.currentMode
  delaySec,     \* state.delaySec
  fragment,     \* state.fragment
  gone,         \* the connections that have closed
  pacerLog,     \* history: the calls of sendToSpectators of the current run
  finalized,    \* history: the slot indexes processSlotEnd ran for, in order
  adminOps,     \* history: the number of HTTP requests so far
  rosterOps,    \* history: the number of joins, leaves and disconnects so far
  pacerTimers,  \* the pending word timers of sendToSpectators
  gateLog,      \* history: the calls of handleCaption of the current run
  generation,   \* history: the number of runs started so far
  manifest,     \* the source playlist in the HLS directory, as lines
  served        \* history: the last answer of GET /hls/live.m3u8 or delayed.m3u8

vars == <<now, ffmpegProc, starting, currentMode, delaySec, fragment, gone,
          pacerLog, finalized, adminOps, rosterOps, pacerTimers, gateLog, generation,
          manifest, served>>

NoTimer == [on |-> FALSE, period |-> 0, due |-> 0]

\* the object literal of state.fragment / resetFragment, given the grace
\* percent and the required count it starts with
FreshFragment(grace, required) ==
  [ active |-> FALSE,
    slotDuration |-> defaultSlotDuration,
    overlapDuration |-> defaultOverlapDuration,
    notifyBefore |-> defaultNotifyBefore,
    gracePeriodPercent |-> grace,
    requiredSubtitlers |-> required,
    subtitlers |-> << >>,
    currentSlotIndex |-> 0,
    schedulerTimer |-> NoTimer,
    slotTimers |-> {},
    openSlotBySubtitlerId |-> [s \in Subs |-> NoSlot],
    captionsBySlot |-> << >>,
    fusedCaptions |-> << >> ]

\* A faulty variant of resetFragment that leaves the interval of the
\* scheduler registered
resetFragmentKeepingInterval(f) ==
  [FreshFragment(IF f.gracePeriodPercent = 0 THEN defaultGracePeriodPercent
                 ELSE f.gracePeriodPercent,
                 IF f.requiredSubtitlers = 0 THEN defaultRequiredSubtitlers
                 ELSE f.requiredSubtitlers)
     EXCEPT !.schedulerTimer = f.schedulerTimer]

\* resetFragment: every pending timer is cleared and state.fragment replaced;
\* prevGrace || 20 and prevRequired || 2
resetFragment(f) ==
  FreshFragment(IF f.gracePeriodPercent = 0 THEN defaultGracePeriodPercent
                ELSE f.gracePeriodPercent,
                IF f.requiredSubtitlers = 0 THEN defaultRequiredSubtitlers
                ELSE f.requiredSubtitlers)

\* clearTimers
clearTimers(f) == [f EXCEPT !.schedulerTimer = NoTimer, !.slotTimers = {}]

\* ------------------------------------------------------------------------
\* Roster and configuration helpers (services.js)
\* ------------------------------------------------------------------------

\* getActiveSubtitlers: the roster entries whose socket is open, by joinedAt.
\* The roster is a Map in insertion order and joinedAt is the clock at
\* insertion, so the sequence is already in joinedAt order.
getActiveSubtitlers(f) == SelectSeq(f.subtitlers, LAMBDA s : s \notin gone)

getSubtitlerForSlot(f, slotIndex) ==
  LET active == getActiveSubtitlers(f)
  IN IF Len(active) = 0 THEN NoSub ELSE active[(slotIndex % Len(active)) + 1]

getFragmentStrideSeconds(f) == f.slotDuration - f.overlapDuration

getFragmentGraceSeconds(f) == (f.slotDuration * f.gracePeriodPercent) \div 100

getFragmentProcessingLatencySeconds(f) == f.slotDuration + getFragmentGraceSeconds(f)

getMinSpectatorDelaySec(f) ==
  Max(segmentDuration, getFragmentProcessingLatencySeconds(f))

\* Math.ceil(a / b) for b > 0
CeilDiv(a, b) == -((-a) \div b)

getFragmentMinRequiredSubtitlers(f) ==
  LET stride == getFragmentStrideSeconds(f)
      grace == getFragmentGraceSeconds(f)
  IN IF stride <= 0 THEN Infinity ELSE CeilDiv(f.slotDuration + grace, stride)

\* A faulty variant of validateFragmentConfig that does not compare
\* requiredSubtitlers with the minimum
validateFragmentConfigWithoutMinRequired(f, requiredSubtitlers) ==
  /\ ~(f.slotDuration <= 0)
  /\ ~(f.overlapDuration < 0)
  /\ ~(f.overlapDuration >= f.slotDuration)
  /\ ~(f.gracePeriodPercent < 0 \/ f.gracePeriodPercent > 100)

\* validateFragmentConfig(requiredSubtitlers).ok
validateFragmentConfig(f, requiredSubtitlers) ==
  /\ ~(f.slotDuration <= 0)
  /\ ~(f.overlapDuration < 0)
  /\ ~(f.overlapDuration >= f.slotDuration)
  /\ ~(f.gracePeriodPercent < 0 \/ f.gracePeriodPercent > 100)
  /\ ~(requiredSubtitlers < getFragmentMinRequiredSubtitlers(f))

\* validateFragmentConfig(requiredSubtitlers).error: the message and the
\* minimum it names, 0 when it names none
ValidationError(f, requiredSubtitlers) ==
  IF validateFragmentConfig(f, requiredSubtitlers)
  THEN [error |-> "none", minRequired |-> 0]
  ELSE IF f.slotDuration <= 0
  THEN [error |-> "slotDuration must be > 0", minRequired |-> 0]
  ELSE IF f.overlapDuration < 0
  THEN [error |-> "overlapDuration must be >= 0", minRequired |-> 0]
  ELSE IF f.overlapDuration >= f.slotDuration
  THEN [error |-> "overlapDuration must be < slotDuration", minRequired |-> 0]
  ELSE IF f.gracePeriodPercent < 0 \/ f.gracePeriodPercent > 100
  THEN [error |-> "gracePeriodPercent must be between 0 and 100", minRequired |-> 0]
  ELSE [error |-> "Invalid config for overlapping slots: need at least",
        minRequired |-> getFragmentMinRequiredSubtitlers(f)]

\* the submit deadline of a slot under the configuration in force (ms)
SubmitDeadline(f, slot) ==
  slot.startTime + (f.slotDuration + getFragmentGraceSeconds(f)) * 1000


\* ------------------------------------------------------------------------
\* Slot scheduler (services.js)
\* ------------------------------------------------------------------------

SlotTimer(kind, slot, due, to) == [kind |-> kind, slot |-> slot, due |-> due, to |-> to]

\* startNextSlot, called at time now
startNextSlot(f) ==
  LET active == getActiveSubtitlers(f)
      stride == getFragmentStrideSeconds(f)
      graceSec == getFragmentGraceSeconds(f)
      slotIndex == f.currentSlotIndex
      current == getSubtitlerForSlot(f, slotIndex)
      next == getSubtitlerForSlot(f, slotIndex + 1)
      newSlot == [ slotIndex |-> slotIndex,
                   subtitlerId |-> current,
                   startTime |-> now,
                   endTime |-> -1,
                   captions |-> << >>,
                   finalText |-> NullText,
                   sent |-> FALSE,
                   overlapFromPrev |-> -1 ]
      slotArrayIndex == Len(f.captionsBySlot)
      endingNotifyMs == (f.slotDuration - f.notifyBefore) * MsPerSec
      prepareNotifyMs == (stride - f.notifyBefore) * MsPerSec
      timers ==
        (IF endingNotifyMs > 0
         THEN {SlotTimer("ending", slotArrayIndex, now + endingNotifyMs, current)}
         ELSE {})
        \cup
        (IF prepareNotifyMs > 0
         THEN {SlotTimer("prepare", slotArrayIndex, now + prepareNotifyMs, next)}
         ELSE {})
        \cup
        {SlotTimer("graceStart", slotArrayIndex, now + f.slotDuration * MsPerSec, current),
         SlotTimer("graceEnd", slotArrayIndex,
                   now + (f.slotDuration + graceSec) * MsPerSec, current)}
  IN IF Len(active) < f.requiredSubtitlers THEN f
     ELSE [f EXCEPT
             !.captionsBySlot = Append(@, newSlot),
             !.openSlotBySubtitlerId =
                IF current # NoSub THEN [@ EXCEPT ![current] = slotIndex] ELSE @,
             !.slotTimers = @ \cup timers,
             !.currentSlotIndex = @ + 1]

\* A faulty variant of startFragmentScheduler that numbers the slots from 0
\* again each time the scheduler is (re)started
startFragmentSchedulerRenumbering(f) ==
  LET f1 == [clearTimers(f) EXCEPT !.currentSlotIndex = 0]
      stride == getFragmentStrideSeconds(f1)
  IN IF ~validateFragmentConfig(f1, f1.requiredSubtitlers) THEN f1
     ELSE IF Len(getActiveSubtitlers(f1)) < f1.requiredSubtitlers THEN f1
     ELSE [startNextSlot(f1) EXCEPT
             !.schedulerTimer = [on |-> TRUE, period |-> stride * MsPerSec,
                                 due |-> now + stride * MsPerSec]]

\* startFragmentScheduler (startSlotTimer is an alias of it)
startFragmentScheduler(f) ==
  LET f1 == clearTimers(f)
      stride == getFragmentStrideSeconds(f1)
  IN IF ~validateFragmentConfig(f1, f1.requiredSubtitlers) THEN f1
     ELSE IF Len(getActiveSubtitlers(f1)) < f1.requiredSubtitlers THEN f1
     ELSE [startNextSlot(f1) EXCEPT
             !.schedulerTimer = [on |-> TRUE, period |-> stride * MsPerSec,
                                 due |-> now + stride * MsPerSec]]

\* startFragmentMode
startFragmentMode(f) ==
  IF f.active THEN f
  ELSE startFragmentScheduler(
         [f EXCEPT !.active = TRUE,
                   !.currentSlotIndex = 0,
                   !.captionsBySlot = << >>,
                   !.fusedCaptions = << >>,
                   !.openSlotBySubtitlerId = [s \in Subs |-> NoSlot]])

\* ------------------------------------------------------------------------
\* Submission gate (services.js: addCaptionToSlot)
\* ------------------------------------------------------------------------

\* captionsBySlot.find(s => s.slotIndex === slotIndex): its position, 0 if none
FindSlotPos(slots, slotIndex) ==
  LET hits == {k \in 1..Len(slots) : slots[k].slotIndex = slotIndex}
  IN IF hits = {} THEN 0 ELSE CHOOSE k \in hits : \A h \in hits : k <= h

\* A faulty variant of FallbackSlotPos that holds the automatic captions to
\* the deadline as it does the manual ones
RECURSIVE FallbackSlotPosWithDeadline(_, _, _)
FallbackSlotPosWithDeadline(f, caption, k) ==
  IF k = 0 THEN 0
  ELSE LET candidate == f.captionsBySlot[k]
       IN IF candidate.subtitlerId # caption.subtitlerId
          THEN FallbackSlotPosWithDeadline(f, caption, k - 1)
          ELSE IF now <= SubmitDeadline(f, candidate) THEN k
          ELSE FallbackSlotPosWithDeadline(f, caption, k - 1)

\* the fallback loop, from the newest slot (position k) down to the oldest
RECURSIVE FallbackSlotPos(_, _, _)
FallbackSlotPos(f, caption, k) ==
  IF k = 0 THEN 0
  ELSE LET candidate == f.captionsBySlot[k]
       IN IF candidate.subtitlerId # caption.subtitlerId
          THEN FallbackSlotPos(f, caption, k - 1)
          ELSE IF caption.autoSent THEN k
          ELSE IF now <= SubmitDeadline(f, candidate) THEN k
          ELSE FallbackSlotPos(f, caption, k - 1)

\* A faulty variant of GateSlotPos that never looks at the deadline: the
\* mapped slot, or else the newest slot of the sender
GateSlotPosIgnoringDeadline(f, caption) ==
  LET slotIndex == f.openSlotBySubtitlerId[caption.subtitlerId]
      mapped == IF slotIndex # NoSlot THEN FindSlotPos(f.captionsBySlot, slotIndex) ELSE 0
      own == {k \in 1..Len(f.captionsBySlot) :
                f.captionsBySlot[k].subtitlerId = caption.subtitlerId}
  IN IF ~f.active THEN 0
     ELSE IF mapped # 0 THEN mapped
     ELSE IF own = {} THEN 0
     ELSE CHOOSE m \in own : \A j \in own : j <= m

\* the position of the slot addCaptionToSlot appends to, 0 when it rejects
GateSlotPos(f, caption) ==
  LET slotIndex == f.openSlotBySubtitlerId[caption.subtitlerId]
      mapped == IF slotIndex # NoSlot THEN FindSlotPos(f.captionsBySlot, slotIndex) ELSE 0
      pos == IF mapped # 0 THEN mapped
             ELSE FallbackSlotPos(f, caption, Len(f.captionsBySlot))
  IN IF ~f.active THEN 0
     ELSE IF pos = 0 THEN 0
     ELSE IF ~caption.autoSent /\ now > SubmitDeadline(f, f.captionsBySlot[pos]) THEN 0
     ELSE pos

\* A faulty variant of addCaptionToSlot that puts the caption in front of the
\* slot's list
addCaptionToSlotInFront(f, caption) ==
  LET pos == GateSlotPos(f, caption)
  IN IF pos = 0 THEN f
     ELSE [f EXCEPT !.captionsBySlot[pos].captions =
                       <<[text |-> caption.text,
                          subtitlerId |-> caption.subtitlerId,
                          autoSent |-> caption.autoSent]>> \o @]

\* addCaptionToSlot: the fragment state after it.  Of the stored caption the
\* text, the sender and autoSent are kept; its id, names and timestamps are
\* read by nothing modelled here.
addCaptionToSlot(f, caption) ==
  LET pos == GateSlotPos(f, caption)
  IN IF pos = 0 THEN f
     ELSE [f EXCEPT !.captionsBySlot[pos].captions =
                       Append(@, [text |-> caption.text,
                                  subtitlerId |-> caption.subtitlerId,
                                  autoSent |-> caption.autoSent])]


\* isMyTurn of the individualized fragment:status broadcastFragmentStatus
\* sends to the active subtitler s at time now: false without an open-slot
\* entry, else now <= deadlineMs of the slot the entry names
IsMyTurn(f, s) ==
  LET slotIndex == f.openSlotBySubtitlerId[s]
      pos == IF slotIndex # NoSlot THEN FindSlotPos(f.captionsBySlot, slotIndex) ELSE 0
  IN IF pos = 0 THEN FALSE
     ELSE LET slot == f.captionsBySlot[pos]
              graceSec == (f.slotDuration * f.gracePeriodPercent) \div 100
              deadlineMs == slot.startTime + (f.slotDuration + graceSec) * 1000
          IN now <= deadlineMs

\* what addCaptionToSlot logs of its decision
GateVerdict(f, caption) ==
  LET slotIndex == f.openSlotBySubtitlerId[caption.subtitlerId]
      mapped == IF slotIndex # NoSlot THEN FindSlotPos(f.captionsBySlot, slotIndex) ELSE 0
      pos == IF mapped # 0 THEN mapped
             ELSE FallbackSlotPos(f, caption, Len(f.captionsBySlot))
  IN IF ~f.active THEN "inactive"
     ELSE IF pos = 0 THEN "REJECTED - No open slot"
     ELSE IF ~caption.autoSent /\ now > SubmitDeadline(f, f.captionsBySlot[pos])
          THEN "REJECTED - Deadline passed"
     ELSE "accepted"

\* the messages of one call of handleCaption in fragment mode: the
\* fragment:raw-caption addCaptionToSlot broadcasts to the admins and the
\* caption handleCaption echoes to the other subtitlers
CaptionMessages(f, caption) ==
  IF GateSlotPos(f, caption) = 0 THEN {}
  ELSE {[type |-> "fragment:raw-caption", to |-> "admins"],
        [type |-> "caption", to |-> "other subtitlers"]}

\* one call of handleCaption in fragment mode, as gateLog keeps it: mapped says
\* whether the sender had an open-slot entry, late whether the deadline of the
\* slot the caption went to had passed, expired whether the sender had slots
\* in the history and the deadline of each of them had passed
GateRecord(f, caption) ==
  LET pos == GateSlotPos(f, caption)
      own == {k \in 1..Len(f.captionsBySlot) :
                f.captionsBySlot[k].subtitlerId = caption.subtitlerId}
  IN [ subtitlerId |-> caption.subtitlerId,
       text |-> caption.text,
       autoSent |-> caption.autoSent,
       mapped |-> f.openSlotBySubtitlerId[caption.subtitlerId] # NoSlot,
       verdict |-> GateVerdict(f, caption),
       slotIndex |-> IF pos = 0 THEN NoSlot ELSE f.captionsBySlot[pos].slotIndex,
       late |-> pos # 0 /\ now > SubmitDeadline(f, f.captionsBySlot[pos]),
       expired |-> own # {} /\ \A k \in own : now > SubmitDeadline(f, f.captionsBySlot[k]),
       messages |-> CaptionMessages(f, caption) ]

\* ------------------------------------------------------------------------
\* Fusion engine and delivery (services.js)
\* ------------------------------------------------------------------------

\* getSlotRawText: slot.captions.map(c => c.text).join(' ').trim()
getSlotRawText(slot) ==
  IF Len(slot.captions) = 0 THEN << >>
  ELSE Trim(JoinSpace([k \in 1..Len(slot.captions) |-> slot.captions[k].text]))

\* sendToSpectators(slot, text), called at time now: the record of the call.
\* words is text.split(/\s+/).filter(w => w.length > 0).length; with no word
\* nothing is scheduled.  by and bySlot say which handler made the call; raw,
\* rawPrev and overlap are the slot's raw text, its predecessor's raw text and
\* the slot's overlapFromPrev at the call.
sendToSpectators(f, slot, text, by, bySlot) ==
  [ slotIndex |-> slot.slotIndex,
    text |-> text,
    at |-> now,
    delayMs |-> Max(0, slot.startTime + delaySec * MsPerSec - now),
    words |-> Len(SplitWords(text, << >>)),
    slotDurationMs |-> f.slotDuration * MsPerSec,
    by |-> by,
    bySlot |-> bySlot,
    raw |-> getSlotRawText(slot),
    rawPrev |-> IF slot.slotIndex >= 1 /\ slot.slotIndex <= Len(f.captionsBySlot)
                THEN getSlotRawText(f.captionsBySlot[slot.slotIndex])
                ELSE << >>,
    overlap |-> slot.overlapFromPrev ]

\* A faulty variant of WordTimersOfCall that divides the slot duration by one
\* more than the number of words
WordTimersOfCallShortInterval(call, id) ==
  LET words == SplitWords(call.text, << >>)
      intervalMs == call.slotDurationMs \div (Len(words) + 1)
  IN IF Len(words) = 0 THEN {}
     ELSE {[ id |-> id,
             word |-> words[index + 1],
             wordIndex |-> index,
             totalWords |-> Len(words),
             isLast |-> (index = Len(words) - 1),
             slotIndex |-> call.slotIndex,
             slotDurationMs |-> call.slotDurationMs,
             due |-> call.at + call.delayMs + index * intervalMs,
             generation |-> generation ] : index \in 0..(Len(words) - 1)}

\* the word timers one call of sendToSpectators sets: word index of the call
\* is due wordDelayMs = delayMs + index * intervalMs after the call, with
\* intervalMs = Math.floor(slotDurationMs / words.length).  id stands for the
\* captionId, a fresh UUID per call; generation is the run that made the call.
WordTimersOfCall(call, id) ==
  LET words == SplitWords(call.text, << >>)
      intervalMs == call.slotDurationMs \div Len(words)
  IN IF Len(words) = 0 THEN {}
     ELSE {[ id |-> id,
             word |-> words[index + 1],
             wordIndex |-> index,
             totalWords |-> Len(words),
             isLast |-> (index = Len(words) - 1),
             slotIndex |-> call.slotIndex,
             slotDurationMs |-> call.slotDurationMs,
             due |-> call.at + call.delayMs + index * intervalMs,
             generation |-> generation ] : index \in 0..(Len(words) - 1)}

\* the word timers of a sequence of calls, the first of which is call number
\* first of the run
ScheduleWords(calls, first) ==
  UNION {WordTimersOfCall(calls[i], [run |-> generation, call |-> first + i - 1]) :
           i \in 1..Len(calls)}

\* storeFusedCaption(slot, text, nextSlot, overlapCount): the record pushed;
\* nextSlotIndex is NoSlot when nextSlot is null
storeFusedCaption(slot, text, nextSlotIndex, overlapCount) ==
  [ text |-> text,
    slotIndex |-> slot.slotIndex,
    nextSlotIndex |-> nextSlotIndex,
    overlapCount |-> overlapCount ]

\* A faulty variant of WordsToSend that trims the end of the slot's text
\* instead of its start
WordsToSendTrimmingEnd(slot) ==
  LET words == tokenize(getSlotRawText(slot))
  IN IF slot.overlapFromPrev > 0
     THEN SubSeq(words, 1, Len(words) - Min(slot.overlapFromPrev, Len(words)))
     ELSE words

\* the words of a slot that are sent: its tokens without the first
\* overlapFromPrev ones (all of them when overlapFromPrev is unset or 0)
WordsToSend(slot) ==
  LET words == tokenize(getSlotRawText(slot))
  IN IF slot.overlapFromPrev > 0 THEN SliceFrom(words, slot.overlapFromPrev) ELSE words

\* A faulty variant of processFirstSlotEnd that keeps the first slot back for
\* the finalize of its successor, as is done for every other slot
processFirstSlotEndDeferred(f, endedSlot, endedText) ==
  [f |-> f, calls |-> << >>]

\* processSlotEnd, the branch of the first slot (endedSlotIndex === 0), which
\* has no predecessor: it is sent at once
processFirstSlotEnd(f, endedSlot, endedText) ==
  IF endedText # << >>
  THEN [f |-> [f EXCEPT !.captionsBySlot[1].finalText = endedText,
                        !.captionsBySlot[1].sent = TRUE,
                        !.fusedCaptions =
                           Append(@, storeFusedCaption(endedSlot, endedText, NoSlot, 0))],
        calls |-> <<sendToSpectators(f, endedSlot, endedText, "finalize", 0)>>]
  ELSE [f |-> [f EXCEPT !.captionsBySlot[1].sent = TRUE,
                        !.captionsBySlot[1].finalText = << >>],
        calls |-> << >>]

\* processSlotEnd(endedSlotIndex): the fragment state after it and the calls
\* of sendToSpectators it makes
processSlotEnd(f, endedSlotIndex) ==
  LET slots == f.captionsBySlot
      pos == endedSlotIndex + 1
      none == [f |-> f, calls |-> << >>]
  IN IF Len(slots) = 0 \/ pos > Len(slots) THEN none
     ELSE
     LET endedSlot == slots[pos]
         endedText == getSlotRawText(endedSlot)
     IN IF endedSlotIndex = 0
        THEN processFirstSlotEnd(f, endedSlot, endedText)
        ELSE
        LET prevSlot == slots[pos - 1]
            prevText == getSlotRawText(prevSlot)
            prevWords == tokenize(prevText)
            currentWords == tokenize(endedText)
            overlapLength == IF Len(currentWords) > 0 /\ Len(prevWords) > 0
                             THEN findOverlap(prevWords, currentWords)
                             ELSE 0
            f1 == [f EXCEPT !.captionsBySlot[pos].overlapFromPrev = overlapLength]
            textToSend == detokenize(WordsToSend(prevSlot))
        IN IF prevSlot.sent THEN [f |-> f1, calls |-> << >>]
           ELSE IF prevText = << >>
           THEN [f |-> [f1 EXCEPT !.captionsBySlot[pos - 1].sent = TRUE,
                                  !.captionsBySlot[pos - 1].finalText = << >>],
                 calls |-> << >>]
           ELSE [f |-> [f1 EXCEPT !.captionsBySlot[pos - 1].finalText = textToSend,
                                  !.captionsBySlot[pos - 1].sent = TRUE,
                                  !.fusedCaptions =
                                     Append(@, storeFusedCaption(prevSlot, textToSend,
                                                                 endedSlot.slotIndex, overlapLength))],
                 calls |-> <<sendToSpectators(f1, prevSlot, textToSend, "finalize", endedSlotIndex)>>]

\* one iteration of the loop of sendRemainingSlots: the slot afterwards
FlushedSlot(slot) ==
  LET rawText == getSlotRawText(slot)
      finalText == detokenize(WordsToSend(slot))
  IN IF slot.sent THEN slot
     ELSE IF rawText = << >> THEN [slot EXCEPT !.sent = TRUE, !.finalText = << >>]
     ELSE IF finalText # << >> THEN [slot EXCEPT !.finalText = finalText, !.sent = TRUE]
     ELSE slot

\* the calls of sendToSpectators of sendRemainingSlots, from position k on
RECURSIVE FlushCalls(_, _)
FlushCalls(f, k) ==
  IF k > Len(f.captionsBySlot) THEN << >>
  ELSE LET slot == f.captionsBySlot[k]
           finalText == detokenize(WordsToSend(slot))
       IN (IF ~slot.sent /\ getSlotRawText(slot) # << >> /\ finalText # << >>
           THEN <<sendToSpectators(f, slot, finalText, "flush", NoSlot)>>
           ELSE << >>)
          \o FlushCalls(f, k + 1)

\* sendRemainingSlots: the fragment state after it and its calls of
\* sendToSpectators, oldest slot first
sendRemainingSlots(f) ==
  [ f |-> [f EXCEPT !.captionsBySlot =
                       [k \in 1..Len(f.captionsBySlot) |-> FlushedSlot(f.captionsBySlot[k])]],
    calls |-> FlushCalls(f, 1) ]


\* ------------------------------------------------------------------------
\* HLS playlists (services.js)
\* ------------------------------------------------------------------------

\* readPlaylist returns null when there is no source playlist
NoManifest == <<"<null>">>

\* no playlist has been asked for yet
NoAnswer == [route |-> "none", content |-> NoManifest, error |-> "none"]

\* A line of a playlist: its tag and the number it carries.  EXTINF carries
\* the duration of the segment and a uri line the number of the segment file,
\* which ends with .ts
Line(kind, value) == [kind |-> kind, value |-> value]

NoInf == Line("none", 0)

\* one step of the loop of parsePlaylist; parseInt(...) || fallback takes the
\* fallback for 0 as well
ParseLine(acc, t) ==
  IF t.kind = "#EXT-X-TARGETDURATION:"
  THEN [acc EXCEPT !.targetDuration = IF t.value # 0 THEN t.value ELSE @]
  ELSE IF t.kind = "#EXT-X-MEDIA-SEQUENCE:"
  THEN [acc EXCEPT !.mediaSequence = t.value]
  ELSE IF t.kind = "#EXTINF:"
  THEN [acc EXCEPT !.currentInf = t]
  ELSE IF t.kind = ".ts" /\ acc.currentInf # NoInf
  THEN [acc EXCEPT !.segments = Append(@, [inf |-> acc.currentInf, uri |-> t]),
                   !.currentInf = NoInf]
  ELSE acc

RECURSIVE ParseLines(_, _)
ParseLines(acc, lines) ==
  IF lines = << >> THEN acc ELSE ParseLines(ParseLine(acc, Head(lines)), Tail(lines))

\* parsePlaylist(content), content not null
parsePlaylist(content) ==
  LET acc == ParseLines([targetDuration |-> segmentDuration, mediaSequence |-> 0,
                         segments |-> << >>, currentInf |-> NoInf], content)
  IN [targetDuration |-> acc.targetDuration, mediaSequence |-> acc.mediaSequence,
      segments |-> acc.segments]

\* segments.flatMap(s => [s.inf, s.uri])
RECURSIVE FlatSegments(_)
FlatSegments(segments) ==
  IF segments = << >> THEN << >>
  ELSE <<Head(segments).inf, Head(segments).uri>> \o FlatSegments(Tail(segments))

buildPlaylist(parsed, startSeq, segments) ==
  << Line("#EXTM3U", 0),
     Line("#EXT-X-VERSION:", 3),
     Line("#EXT-X-TARGETDURATION:", parsed.targetDuration),
     Line("#EXT-X-MEDIA-SEQUENCE:", startSeq) >> \o FlatSegments(segments)

\* Array.prototype.slice(start, end) for 0 <= start
Slice(xs, start, end) == SubSeq(xs, start + 1, Min(end, Len(xs)))

\* A faulty variant of getLivePlaylist that keeps the oldest segments
getLivePlaylistFromStart(content) ==
  IF content = NoManifest THEN [content |-> NoManifest, error |-> "No manifest"]
  ELSE LET parsed == parsePlaylist(content)
           windowSize == Min(hlsListSize, Len(parsed.segments))
       IN IF Len(parsed.segments) = 0 THEN [content |-> NoManifest, error |-> "No segments"]
          ELSE [content |-> buildPlaylist(parsed, parsed.mediaSequence,
                                          Slice(parsed.segments, 0, windowSize)),
                error |-> "none"]

getLivePlaylist(content) ==
  IF content = NoManifest THEN [content |-> NoManifest, error |-> "No manifest"]
  ELSE LET parsed == parsePlaylist(content)
           windowSize == Min(hlsListSize, Len(parsed.segments))
           startIdx == Len(parsed.segments) - windowSize
       IN IF Len(parsed.segments) = 0 THEN [content |-> NoManifest, error |-> "No segments"]
          ELSE [content |-> buildPlaylist(parsed, parsed.mediaSequence + startIdx,
                                          Slice(parsed.segments, startIdx, Len(parsed.segments))),
                error |-> "none"]

\* A faulty variant of getDelayedPlaylist that ends its window one segment
\* later
getDelayedPlaylistOneLater(content, delay) ==
  IF content = NoManifest THEN [content |-> NoManifest, error |-> "No manifest"]
  ELSE LET parsed == parsePlaylist(content)
           delaySegs == delay \div parsed.targetDuration
           endIdx == Max(0, Len(parsed.segments) - delaySegs + 1)
           windowSize == Min(hlsListSize, endIdx)
           startIdx == Max(0, endIdx - windowSize)
       IN IF Len(parsed.segments) = 0 THEN [content |-> NoManifest, error |-> "No segments"]
          ELSE IF endIdx = 0 THEN [content |-> NoManifest, error |-> "Not enough segments"]
          ELSE [content |-> buildPlaylist(parsed, parsed.mediaSequence + startIdx,
                                          Slice(parsed.segments, startIdx, endIdx)),
                error |-> "none"]

getDelayedPlaylist(content, delay) ==
  IF content = NoManifest THEN [content |-> NoManifest, error |-> "No manifest"]
  ELSE LET parsed == parsePlaylist(content)
           delaySegs == delay \div parsed.targetDuration
           endIdx == Max(0, Len(parsed.segments) - delaySegs)
           windowSize == Min(hlsListSize, endIdx)
           startIdx == Max(0, endIdx - windowSize)
       IN IF Len(parsed.segments) = 0 THEN [content |-> NoManifest, error |-> "No segments"]
          ELSE IF endIdx = 0 THEN [content |-> NoManifest, error |-> "Not enough segments"]
          ELSE [content |-> buildPlaylist(parsed, parsed.mediaSequence + startIdx,
                                          Slice(parsed.segments, startIdx, endIdx)),
                error |-> "none"]

\* ------------------------------------------------------------------------
\* Initial state (core.js: state)
\* ------------------------------------------------------------------------

Init ==
  /\ now = 0
  /\ ffmpegProc = FALSE
  /\ starting = FALSE
  /\ currentMode = "none"
  /\ delaySec = defaultDelay
  /\ fragment = FreshFragment(defaultGracePeriodPercent, defaultRequiredSubtitlers)
  /\ gone = {}
  /\ pacerLog = << >>
  /\ finalized = << >>
  /\ adminOps = 0
  /\ rosterOps = 0
  /\ pacerTimers = {}
  /\ gateLog = << >>
  /\ generation = 0
  /\ manifest = NoManifest
  /\ served = NoAnswer

\* ------------------------------------------------------------------------
\* WebSocket handlers (websocket.js)
\* ------------------------------------------------------------------------

InRoster(f, s) == \E k \in 1..Len(f.subtitlers) : f.subtitlers[k] = s

\* a connection that has joined, or that holds a slot, is known to be open
KnownConnection(s) ==
  \/ InRoster(fragment, s)
  \/ \E k \in 1..Len(fragment.captionsBySlot) : fragment.captionsBySlot[k].subtitlerId = s

\* ws.odId = generateUUID(): a new connection gets an id the state has no
\* trace of.  Which one is immaterial, so it is the first such id of Subs.
UnusedIds == {s \in Subs : s \notin gone /\ ~KnownConnection(s)}

IsConnection(s) ==
  /\ s \notin gone
  /\ KnownConnection(s) \/ \A u \in UnusedIds : SubRank[s] <= SubRank[u]

RemoveFromRoster(f, s) ==
  [f EXCEPT !.subtitlers = SelectSeq(@, LAMBDA x : x # s)]

\* A faulty variant of JoinRestarts that asks for more than the required
\* number of active subtitlers
JoinRestartsAboveRequired(f) ==
  f.active /\ Len(getActiveSubtitlers(f)) > f.requiredSubtitlers

\* handleFragmentJoin after the roster insertion: state.fragment.slotTimer is
\* never assigned, so !state.fragment.slotTimer is always true
JoinRestarts(f) ==
  f.active /\ Len(getActiveSubtitlers(f)) >= f.requiredSubtitlers

\* handleFragmentJoin (also reached from handleIdentify for a named subtitler)
Join(s) ==
  /\ IsConnection(s)
  /\ ~InRoster(fragment, s)
  /\ LET f1 == [fragment EXCEPT !.subtitlers = Append(@, s)]
     IN fragment' = IF JoinRestarts(f1) THEN startFragmentScheduler(f1) ELSE f1
  /\ rosterOps < MaxRosterOps
  /\ rosterOps' = rosterOps + 1
  /\ UNCHANGED <<now, ffmpegProc, starting, currentMode, delaySec, gone, pacerLog, finalized,
                 adminOps, pacerTimers, gateLog, generation, manifest, served>>

\* handleFragmentLeave
Leave(s) ==
  /\ s \notin gone
  /\ InRoster(fragment, s)
  /\ fragment' = RemoveFromRoster(fragment, s)
  /\ rosterOps < MaxRosterOps
  /\ rosterOps' = rosterOps + 1
  /\ UNCHANGED <<now, ffmpegProc, starting, currentMode, delaySec, gone, pacerLog, finalized,
                 adminOps, pacerTimers, gateLog, generation, manifest, served>>

\* A faulty variant of Disconnect that hands the slots of the closed
\* connection that are still open to nobody and empties them
DisconnectReassigning(s) ==
  /\ s \notin gone
  /\ KnownConnection(s)
  /\ gone' = gone \cup {s}
  /\ fragment' =
       [RemoveFromRoster(fragment, s) EXCEPT
          !.captionsBySlot =
             [k \in 1..Len(@) |->
                IF @[k].subtitlerId = s /\ @[k].endTime = -1
                THEN [@[k] EXCEPT !.subtitlerId = NoSub, !.captions = << >>]
                ELSE @[k]]]
  /\ rosterOps < MaxRosterOps
  /\ rosterOps' = rosterOps + 1
  /\ UNCHANGED <<now, ffmpegProc, starting, currentMode, delaySec, pacerLog, finalized,
                 adminOps, pacerTimers, gateLog, generation, manifest, served>>

\* ws.on('close') of a subtitler connection
Disconnect(s) ==
  /\ s \notin gone
  /\ KnownConnection(s)
  /\ gone' = gone \cup {s}
  /\ fragment' = RemoveFromRoster(fragment, s)
  /\ rosterOps < MaxRosterOps
  /\ rosterOps' = rosterOps + 1
  /\ UNCHANGED <<now, ffmpegProc, starting, currentMode, delaySec, pacerLog, finalized,
                 adminOps, pacerTimers, gateLog, generation, manifest, served>>

\* the number of captions stored in the slots from position k on
RECURSIVE CaptionsFrom(_, _)
CaptionsFrom(slots, k) ==
  IF k > Len(slots) THEN 0 ELSE Len(slots[k].captions) + CaptionsFrom(slots, k + 1)

TotalCaptions(f) == CaptionsFrom(f.captionsBySlot, 1)

\* text.trim().slice(0, 500)
CaptionText(text) ==
  LET t == Trim(text)
  IN IF Len(t) > MaxCaptionLen THEN SubSeq(t, 1, MaxCaptionLen) ELSE t

\* handleCaption in fragment mode (outside fragment mode it only appends to
\* state.captions and broadcasts, which touches nothing of this state)
Caption(s, text, autoSent) ==
  /\ fragment.active
  /\ TotalCaptions(fragment) < MaxCaptions
  /\ IsConnection(s)
  /\ text # << >>
  /\ fragment' = addCaptionToSlot(fragment,
                   [text |-> CaptionText(text), subtitlerId |-> s, autoSent |-> autoSent])
  /\ UNCHANGED <<now, ffmpegProc, starting, currentMode, delaySec, gone, pacerLog, finalized,
                 adminOps, rosterOps, pacerTimers, gateLog, generation, manifest, served>>

\* handleCaption in fragment mode, the call kept in gateLog with what the gate
\* decided and the messages sent: the step of Caption, observed.  Rejected
\* calls count for MaxCaptions here.
GatedCaption(s, text, autoSent) ==
  /\ fragment.active
  /\ Len(gateLog) < MaxCaptions
  /\ IsConnection(s)
  /\ text # << >>
  /\ LET caption == [text |-> CaptionText(text), subtitlerId |-> s, autoSent |-> autoSent]
     IN /\ fragment' = addCaptionToSlot(fragment, caption)
        /\ gateLog' = Append(gateLog, GateRecord(fragment, caption))
  /\ UNCHANGED <<now, ffmpegProc, starting, currentMode, delaySec, gone, pacerLog, finalized,
                 adminOps, rosterOps, pacerTimers, generation, manifest, served>>

\* handleCaption in fragment mode, gateLog keeping of each accepted caption
\* what captionWithTimestamp adds to it: slotIndex and receivedAt = Date.now().
\* The step of Caption, observed.
StampedCaption(s, text, autoSent) ==
  /\ fragment.active
  /\ TotalCaptions(fragment) < MaxCaptions
  /\ IsConnection(s)
  /\ text # << >>
  /\ LET caption == [text |-> CaptionText(text), subtitlerId |-> s, autoSent |-> autoSent]
         pos == GateSlotPos(fragment, caption)
     IN /\ fragment' = addCaptionToSlot(fragment, caption)
        /\ gateLog' = IF pos = 0 THEN gateLog
                      ELSE Append(gateLog,
                                  [text |-> caption.text,
                                   subtitlerId |-> s,
                                   autoSent |-> autoSent,
                                   slotIndex |-> fragment.captionsBySlot[pos].slotIndex,
                                   receivedAt |-> now])
  /\ UNCHANGED <<now, ffmpegProc, starting, currentMode, delaySec, gone, pacerLog, finalized,
                 adminOps, rosterOps, pacerTimers, generation, manifest, served>>

\* ------------------------------------------------------------------------
\* HTTP handlers (routes.js)
\* ------------------------------------------------------------------------

\* POST /api/delay
PostDelay(d) ==
  /\ delaySec' = IF d < 0 \/ d > maxDelay THEN delaySec
                 ELSE IF d < getMinSpectatorDelaySec(fragment) THEN delaySec
                 ELSE d
  /\ adminOps < MaxAdminOps
  /\ adminOps' = adminOps + 1
  /\ UNCHANGED <<now, ffmpegProc, starting, currentMode, fragment, gone, pacerLog, finalized,
                 rosterOps, pacerTimers, gateLog, generation, manifest, served>>

\* the fragment settings POST /api/live/start takes from its body
ApplyStartBody(f, body) ==
  [f EXCEPT
     !.slotDuration = IF Has(body, "slotDuration") THEN body.slotDuration ELSE @,
     !.overlapDuration = IF Has(body, "overlapDuration") THEN body.overlapDuration ELSE @,
     !.notifyBefore = IF Has(body, "notifyBefore") THEN body.notifyBefore ELSE @,
     !.gracePeriodPercent = IF Has(body, "gracePeriodPercent") THEN body.gracePeriodPercent ELSE @,
     !.requiredSubtitlers = IF Has(body, "requiredSubtitlers") THEN body.requiredSubtitlers ELSE @]

\* POST /api/live/start up to the await of startLive; mode is 'fragmentation'
\* and the source file exists.  startLive begins with cleanHlsDir, which
\* removes the source playlist.
LiveStart(body) ==
  LET d1 == IF Has(body, "delaySec") THEN body.delaySec ELSE delaySec
      f1 == ApplyStartBody(fragment, body)
      valid == validateFragmentConfig(f1, f1.requiredSubtitlers)
      delayOk == ~(d1 < getMinSpectatorDelaySec(f1))
      enough == ~(Len(getActiveSubtitlers(f1)) < f1.requiredSubtitlers)
      started == valid /\ delayOk /\ enough /\ ~ffmpegProc
  IN /\ delaySec' = d1
     /\ fragment' = f1
     /\ currentMode' = IF valid /\ delayOk THEN "fragmentation" ELSE currentMode
     /\ ffmpegProc' = (ffmpegProc \/ started)
     /\ starting' = (starting \/ started)
     /\ adminOps < MaxAdminOps
     /\ adminOps' = adminOps + 1
     /\ manifest' = IF started THEN NoManifest ELSE manifest
     /\ UNCHANGED <<now, gone, pacerLog, finalized, rosterOps, pacerTimers, gateLog, generation,
                    served>>

\* the answer of POST /api/live/start to body: the status, the error and the
\* minimum the error names (0 when it names none)
LiveStartAnswer(body) ==
  LET d1 == IF Has(body, "delaySec") THEN body.delaySec ELSE delaySec
      f1 == ApplyStartBody(fragment, body)
      validation == ValidationError(f1, f1.requiredSubtitlers)
  IN IF validation.error # "none"
     THEN [status |-> 400, error |-> validation.error, minRequired |-> validation.minRequired]
     ELSE IF d1 < getMinSpectatorDelaySec(f1)
     THEN [status |-> 400, error |-> "Delay too small for fragment config", minRequired |-> 0]
     ELSE IF Len(getActiveSubtitlers(f1)) < f1.requiredSubtitlers
     THEN [status |-> 400, error |-> "Need subtitlers", minRequired |-> 0]
     ELSE IF ffmpegProc
     THEN [status |-> 500, error |-> "Already running", minRequired |-> 0]
     ELSE [status |-> 200, error |-> "none", minRequired |-> 0]

\* startLive resolves (enough segments); the handler goes on to startFragmentMode
LiveReady ==
  /\ starting
  /\ ffmpegProc
  /\ starting' = FALSE
  /\ fragment' = startFragmentMode(fragment)
  /\ pacerLog' = IF fragment.active THEN pacerLog ELSE << >>
  /\ finalized' = IF fragment.active THEN finalized ELSE << >>
  /\ gateLog' = IF fragment.active THEN gateLog ELSE << >>
  /\ generation' = IF fragment.active THEN generation ELSE generation + 1
  /\ UNCHANGED <<now, ffmpegProc, currentMode, delaySec, gone, adminOps, rosterOps, pacerTimers,
                 manifest, served>>

\* POST /api/live/stop: stopLive
LiveStop ==
  /\ ffmpegProc' = FALSE
  /\ starting' = FALSE
  /\ currentMode' = "none"
  /\ fragment' = IF fragment.active THEN resetFragment(fragment) ELSE fragment
  /\ adminOps < MaxAdminOps
  /\ adminOps' = adminOps + 1
  /\ UNCHANGED <<now, delaySec, gone, pacerLog, finalized, rosterOps, pacerTimers, gateLog,
                 generation, manifest, served>>

\* the transcoder process exits: handleLiveExit
FfmpegExit ==
  /\ ffmpegProc
  /\ ffmpegProc' = FALSE
  /\ starting' = FALSE
  /\ currentMode' = "none"
  /\ fragment' = IF fragment.active THEN resetFragment(fragment) ELSE fragment
  /\ UNCHANGED <<now, delaySec, gone, pacerLog, finalized, adminOps, rosterOps, pacerTimers,
                 gateLog, generation, manifest, served>>

\* the fragment settings POST /api/fragment/config takes from its body
ApplyConfigBody(f, body) ==
  [f EXCEPT
     !.slotDuration =
        IF Has(body, "slotDuration") /\ body.slotDuration >= 1 THEN body.slotDuration ELSE @,
     !.overlapDuration =
        IF Has(body, "overlapDuration") /\ body.overlapDuration >= 0 THEN body.overlapDuration ELSE @,
     !.notifyBefore =
        IF Has(body, "notifyBefore") /\ body.notifyBefore >= 0 THEN body.notifyBefore ELSE @,
     !.gracePeriodPercent =
        IF Has(body, "gracePeriodPercent") /\ body.gracePeriodPercent >= 0
           /\ body.gracePeriodPercent <= 100
        THEN body.gracePeriodPercent ELSE @,
     !.requiredSubtitlers =
        IF Has(body, "requiredSubtitlers") /\ body.requiredSubtitlers >= 1
           /\ body.requiredSubtitlers <= 10
        THEN body.requiredSubtitlers ELSE @]

\* POST /api/fragment/config: the validation that follows only picks the answer
PostFragmentConfig(body) ==
  /\ fragment' = ApplyConfigBody(fragment, body)
  /\ adminOps < MaxAdminOps
  /\ adminOps' = adminOps + 1
  /\ UNCHANGED <<now, ffmpegProc, starting, currentMode, delaySec, gone, pacerLog, finalized,
                 rosterOps, pacerTimers, gateLog, generation, manifest, served>>

\* the answer of POST /api/fragment/config: the settings are validated after
\* they were assigned
PostFragmentConfigAnswer(body) ==
  LET f == ApplyConfigBody(fragment, body)
      validation == ValidationError(f, f.requiredSubtitlers)
  IN IF validation.error # "none"
     THEN [status |-> 400, error |-> validation.error]
     ELSE [status |-> 200, error |-> "none"]

\* POST /api/fragment/start
PostFragmentStart ==
  /\ ffmpegProc
  /\ validateFragmentConfig(fragment, fragment.requiredSubtitlers)
  /\ fragment' = startFragmentMode(fragment)
  /\ pacerLog' = IF fragment.active THEN pacerLog ELSE << >>
  /\ finalized' = IF fragment.active THEN finalized ELSE << >>
  /\ gateLog' = IF fragment.active THEN gateLog ELSE << >>
  /\ generation' = IF fragment.active THEN generation ELSE generation + 1
  /\ adminOps < MaxAdminOps
  /\ adminOps' = adminOps + 1
  /\ UNCHANGED <<now, ffmpegProc, starting, currentMode, delaySec, gone, rosterOps, pacerTimers,
                 manifest, served>>

\* the answer of POST /api/fragment/start
PostFragmentStartAnswer ==
  LET validation == ValidationError(fragment, fragment.requiredSubtitlers)
  IN IF ~ffmpegProc
     THEN [status |-> 400, error |-> "Live not running", minRequired |-> 0]
     ELSE IF validation.error # "none"
     THEN [status |-> 400, error |-> validation.error, minRequired |-> validation.minRequired]
     ELSE [status |-> 200, error |-> "none", minRequired |-> 0]

\* stopFragmentMode
stopFragmentMode(f) ==
  IF ~f.active THEN [f |-> f, calls |-> << >>]
  ELSE LET r == sendRemainingSlots(f)
       IN [f |-> resetFragment(r.f), calls |-> r.calls]

\* POST /api/fragment/stop
PostFragmentStop ==
  /\ fragment.active
  /\ adminOps < MaxAdminOps
  /\ adminOps' = adminOps + 1
  /\ LET r == stopFragmentMode(fragment)
     IN /\ fragment' = r.f
        /\ pacerLog' = pacerLog \o r.calls
        /\ pacerTimers' = pacerTimers \cup ScheduleWords(r.calls, Len(pacerLog) + 1)
  /\ UNCHANGED <<now, ffmpegProc, starting, currentMode, delaySec, gone, finalized, rosterOps,
                 gateLog, generation, manifest, served>>

\* ------------------------------------------------------------------------
\* Timers
\* ------------------------------------------------------------------------

PendingDues(f) ==
  {t.due : t \in f.slotTimers} \cup (IF f.schedulerTimer.on THEN {f.schedulerTimer.due} ELSE {})

\* A faulty variant of Tick in which a tick that finds too few active
\* subtitlers ends the interval
TickStoppingWhenShort ==
  /\ fragment.schedulerTimer.on
  /\ fragment.schedulerTimer.due <= now
  /\ fragment' = IF Len(getActiveSubtitlers(fragment)) < fragment.requiredSubtitlers
                 THEN [fragment EXCEPT !.schedulerTimer = NoTimer]
                 ELSE [startNextSlot(fragment) EXCEPT
                         !.schedulerTimer.due = @ + fragment.schedulerTimer.period]
  /\ UNCHANGED <<now, ffmpegProc, starting, currentMode, delaySec, gone, pacerLog, finalized,
                 adminOps, rosterOps, pacerTimers, gateLog, generation, manifest, served>>

\* the stride interval fires: startNextSlot
Tick ==
  /\ fragment.schedulerTimer.on
  /\ fragment.schedulerTimer.due <= now
  /\ fragment' = [startNextSlot(fragment) EXCEPT
                    !.schedulerTimer.due = @ + fragment.schedulerTimer.period]
  /\ UNCHANGED <<now, ffmpegProc, starting, currentMode, delaySec, gone, pacerLog, finalized,
                 adminOps, rosterOps, pacerTimers, gateLog, generation, manifest, served>>

NotifyKinds == {"ending", "prepare", "graceStart"}

\* the ending, prepare and grace-start timers only send notifications
Notify(t) ==
  /\ t \in fragment.slotTimers
  /\ t.kind \in NotifyKinds
  /\ t.due <= now
  /\ fragment' = [fragment EXCEPT !.slotTimers = @ \ {t}]
  /\ UNCHANGED <<now, ffmpegProc, starting, currentMode, delaySec, gone, pacerLog, finalized,
                 adminOps, rosterOps, pacerTimers, gateLog, generation, manifest, served>>

\* A faulty variant of GraceEnd that removes the open-slot entry of the
\* slot's subtitler whatever slot it maps to
GraceEndClearingAlways(t) ==
  /\ t \in fragment.slotTimers
  /\ t.kind = "graceEnd"
  /\ t.due <= now
  /\ LET pos == t.slot + 1
         slot == fragment.captionsBySlot[pos]
         current == slot.subtitlerId
     IN fragment' =
          [fragment EXCEPT
             !.captionsBySlot[pos].endTime = now,
             !.openSlotBySubtitlerId =
                IF current # NoSub THEN [@ EXCEPT ![current] = NoSlot] ELSE @,
             !.slotTimers = (@ \ {t}) \cup
                            {SlotTimer("finalize", t.slot, now + FinalizeSettleMs, current)}]
  /\ UNCHANGED <<now, ffmpegProc, starting, currentMode, delaySec, gone, pacerLog, finalized,
                 adminOps, rosterOps, pacerTimers, gateLog, generation, manifest, served>>

\* A faulty variant of GraceEnd that schedules the finalize without the
\* 800 ms of settling
GraceEndFinalizingAtOnce(t) ==
  /\ t \in fragment.slotTimers
  /\ t.kind = "graceEnd"
  /\ t.due <= now
  /\ LET pos == t.slot + 1
         slot == fragment.captionsBySlot[pos]
         current == slot.subtitlerId
     IN fragment' =
          [fragment EXCEPT
             !.captionsBySlot[pos].endTime = now,
             !.openSlotBySubtitlerId =
                IF current # NoSub /\ @[current] = slot.slotIndex
                THEN [@ EXCEPT ![current] = NoSlot] ELSE @,
             !.slotTimers = (@ \ {t}) \cup {SlotTimer("finalize", t.slot, now, current)}]
  /\ UNCHANGED <<now, ffmpegProc, starting, currentMode, delaySec, gone, pacerLog, finalized,
                 adminOps, rosterOps, pacerTimers, gateLog, generation, manifest, served>>

\* graceEndT: the slot is closed for submissions and its finalize is scheduled
GraceEnd(t) ==
  /\ t \in fragment.slotTimers
  /\ t.kind = "graceEnd"
  /\ t.due <= now
  /\ LET pos == t.slot + 1
         slot == fragment.captionsBySlot[pos]
         current == slot.subtitlerId
     IN fragment' =
          [fragment EXCEPT
             !.captionsBySlot[pos].endTime = now,
             !.openSlotBySubtitlerId =
                IF current # NoSub /\ @[current] = slot.slotIndex
                THEN [@ EXCEPT ![current] = NoSlot] ELSE @,
             !.slotTimers = (@ \ {t}) \cup
                            {SlotTimer("finalize", t.slot, now + FinalizeSettleMs, current)}]
  /\ UNCHANGED <<now, ffmpegProc, starting, currentMode, delaySec, gone, pacerLog, finalized,
                 adminOps, rosterOps, pacerTimers, gateLog, generation, manifest, served>>

\* finalizeT: processSlotEnd(slotArrayIndex)
Finalize(t) ==
  /\ t \in fragment.slotTimers
  /\ t.kind = "finalize"
  /\ t.due <= now
  /\ LET f1 == [fragment EXCEPT !.slotTimers = @ \ {t}]
         r == processSlotEnd(f1, t.slot)
     IN /\ fragment' = r.f
        /\ pacerLog' = pacerLog \o r.calls
        /\ pacerTimers' = pacerTimers \cup ScheduleWords(r.calls, Len(pacerLog) + 1)
  /\ finalized' = Append(finalized, t.slot)
  /\ UNCHANGED <<now, ffmpegProc, starting, currentMode, delaySec, gone, adminOps, rosterOps,
                 gateLog, generation, manifest, served>>

\* a word timer of sendToSpectators fires: caption:word goes to the spectators
WordTimer(w) ==
  /\ w \in pacerTimers
  /\ w.due <= now
  /\ \A v \in pacerTimers : v.due >= w.due
  /\ pacerTimers' = pacerTimers \ {w}
  /\ UNCHANGED <<now, ffmpegProc, starting, currentMode, delaySec, fragment, gone, pacerLog,
                 finalized, adminOps, rosterOps, gateLog, generation, manifest, served>>

\* Time passes: up to the next whole second, never beyond a pending timer and
\* never beyond limit.  With no run active and no word timer pending nothing
\* depends on the clock, so it is only moved during a run or towards a word
\* timer.
AdvanceUpTo(limit) ==
  LET nextSecond == ((now \div MsPerSec) + 1) * MsPerSec
      dues == PendingDues(fragment) \cup {w.due : w \in pacerTimers}
      target == IF \E d \in dues : d < nextSecond
                THEN CHOOSE d \in dues : \A e \in dues : d <= e
                ELSE nextSecond
  IN /\ fragment.active \/ pacerTimers # {}
     /\ target > now
     /\ target <= limit
     /\ now' = target
     /\ UNCHANGED <<ffmpegProc, starting, currentMode, delaySec, fragment, gone, pacerLog,
                    finalized, adminOps, rosterOps, pacerTimers, gateLog, generation,
                    manifest, served>>

Advance == AdvanceUpTo(MaxTime)

\* Time passes from a grace end into the 800 ms the finalize waits: the
\* moment a late caption arrives
AdvanceInSettle ==
  /\ fragment.active
  /\ \E t \in fragment.slotTimers : t.kind = "finalize" /\ t.due = now + FinalizeSettleMs
  /\ \A d \in PendingDues(fragment) \cup {w.due : w \in pacerTimers} : d > now + LateArrivalMs
  /\ now + LateArrivalMs <= MaxTime
  /\ now' = now + LateArrivalMs
  /\ UNCHANGED <<ffmpegProc, starting, currentMode, delaySec, fragment, gone, pacerLog,
                 finalized, adminOps, rosterOps, pacerTimers, gateLog, generation,
                 manifest, served>>

\* a timer that only sends messages is due: a notification timer or a word
\* timer
NotifyDue ==
  \/ \E t \in fragment.slotTimers : t.kind \in NotifyKinds /\ t.due <= now
  \/ \E w \in pacerTimers : w.due <= now

\* A due notification or word timer changes nothing but the set of pending
\* timers and commutes with every other step, so it is taken first.
Next ==
  \/ \E t \in fragment.slotTimers : Notify(t)
  \/ \E w \in pacerTimers : WordTimer(w)
  \/ ~NotifyDue /\ \E s \in Subs : Join(s)
  \/ ~NotifyDue /\ \E s \in Subs : Leave(s)
  \/ ~NotifyDue /\ \E s \in Subs : Disconnect(s)
  \/ ~NotifyDue /\ \E s \in Subs, text \in CaptionTexts, autoSent \in BOOLEAN :
       Caption(s, text, autoSent)
  \/ ~NotifyDue /\ \E d \in DelayValues : PostDelay(d)
  \/ ~NotifyDue /\ \E body \in StartBodies : LiveStart(body)
  \/ ~NotifyDue /\ LiveReady
  \/ ~NotifyDue /\ LiveStop
  \/ ~NotifyDue /\ FfmpegExit
  \/ ~NotifyDue /\ \E body \in ConfigBodies : PostFragmentConfig(body)
  \/ ~NotifyDue /\ PostFragmentStart
  \/ ~NotifyDue /\ PostFragmentStop
  \/ ~NotifyDue /\ Tick
  \/ ~NotifyDue /\ \E t \in fragment.slotTimers : GraceEnd(t)
  \/ ~NotifyDue /\ \E t \in fragment.slotTimers : Finalize(t)
  \/ ~NotifyDue /\ Advance

Spec == Init /\ [][Next]_vars

\* ------------------------------------------------------------------------
\* A run under way: the state after two subtitlers joined and POST
\* /api/live/start with one of StartBodies was accepted and resolved
\* (Join, Join, LiveStart, LiveReady from Init)
\* ------------------------------------------------------------------------

InitRun ==
  /\ now = 0
  /\ ffmpegProc = TRUE
  /\ starting = FALSE
  /\ currentMode = "fragmentation"
  /\ gone = {}
  /\ \E body \in StartBodies :
        /\ delaySec = body.delaySec
        /\ fragment = startFragmentMode(
                        ApplyStartBody(
                          [FreshFragment(defaultGracePeriodPercent, defaultRequiredSubtitlers)
                             EXCEPT !.subtitlers = <<"s1", "s2">>],
                          body))
  /\ pacerLog = << >>
  /\ finalized = << >>
  /\ adminOps = 0
  /\ rosterOps = 0
  /\ pacerTimers = {}
  /\ gateLog = << >>
  /\ generation = 1
  /\ manifest = NoManifest
  /\ served = NoAnswer

\* A run with its captions: what the subtitlers type and the three ways a
\* run ends
NextFusion ==
  \/ \E t \in fragment.slotTimers : Notify(t)
  \/ \E w \in pacerTimers : WordTimer(w)
  \/ ~NotifyDue /\ \E s \in Subs, text \in CaptionTexts, autoSent \in BOOLEAN :
       Caption(s, text, autoSent)
  \/ ~NotifyDue /\ PostFragmentStop
  \/ ~NotifyDue /\ LiveStop
  \/ ~NotifyDue /\ FfmpegExit
  \/ ~NotifyDue /\ Tick
  \/ ~NotifyDue /\ \E t \in fragment.slotTimers : GraceEnd(t)
  \/ ~NotifyDue /\ \E t \in fragment.slotTimers : Finalize(t)
  \/ ~NotifyDue /\ Advance

SpecFusion == InitRun /\ [][NextFusion]_vars

\* A run with its roster: joins, leaves and disconnections, stops and
\* restarts; nobody types
NextSched ==
  \/ \E t \in fragment.slotTimers : Notify(t)
  \/ ~NotifyDue /\ \E s \in Subs : Join(s)
  \/ ~NotifyDue /\ \E s \in Subs : Leave(s)
  \/ ~NotifyDue /\ \E s \in Subs : Disconnect(s)
  \/ ~NotifyDue /\ PostFragmentStop
  \/ ~NotifyDue /\ PostFragmentStart
  \/ ~NotifyDue /\ Tick
  \/ ~NotifyDue /\ \E t \in fragment.slotTimers : GraceEnd(t)
  \/ ~NotifyDue /\ \E t \in fragment.slotTimers : Finalize(t)
  \/ ~NotifyDue /\ Advance

SpecSched == InitRun /\ [][NextSched]_vars

\* bodies of POST /api/fragment/config sent during a run: one that validates,
\* one with overlapDuration >= slotDuration, one with too few subtitlers
ConfigTryBodies ==
  { [slotDuration |-> 3, overlapDuration |-> 0],
    [overlapDuration |-> 5],
    [requiredSubtitlers |-> 1] }

\* A run whose settings are posted again
NextConfig ==
  \/ \E t \in fragment.slotTimers : Notify(t)
  \/ ~NotifyDue /\ \E body \in ConfigTryBodies : PostFragmentConfig(body)
  \/ ~NotifyDue /\ Tick
  \/ ~NotifyDue /\ \E t \in fragment.slotTimers : GraceEnd(t)
  \/ ~NotifyDue /\ \E t \in fragment.slotTimers : Finalize(t)
  \/ ~NotifyDue /\ Advance

SpecConfig == InitRun /\ [][NextConfig]_vars

\* bodies of POST /api/live/start for the runs whose notifications are
\* followed: a grace period of one second, none, and a notifyBefore as long
\* as the slot
NotifyBodies ==
  {[delaySec |-> 3, slotDuration |-> 2, overlapDuration |-> 0, notifyBefore |-> 1,
    gracePeriodPercent |-> 50, requiredSubtitlers |-> 2],
   [delaySec |-> 2, slotDuration |-> 2, overlapDuration |-> 1, notifyBefore |-> 1,
    gracePeriodPercent |-> 0, requiredSubtitlers |-> 2],
   [delaySec |-> 2, slotDuration |-> 2, overlapDuration |-> 1, notifyBefore |-> 2,
    gracePeriodPercent |-> 0, requiredSubtitlers |-> 2]}

\* the run of InitRun, accepted with one of NotifyBodies
InitNotify ==
  /\ now = 0
  /\ ffmpegProc = TRUE
  /\ starting = FALSE
  /\ currentMode = "fragmentation"
  /\ gone = {}
  /\ \E body \in NotifyBodies :
        /\ delaySec = body.delaySec
        /\ fragment = startFragmentMode(
                        ApplyStartBody(
                          [FreshFragment(defaultGracePeriodPercent, defaultRequiredSubtitlers)
                             EXCEPT !.subtitlers = <<"s1", "s2">>],
                          body))
  /\ pacerLog = << >>
  /\ finalized = << >>
  /\ adminOps = 0
  /\ rosterOps = 0
  /\ pacerTimers = {}
  /\ gateLog = << >>
  /\ generation = 1
  /\ manifest = NoManifest
  /\ served = NoAnswer

\* A run and the timers of its slots, with joins and leaves
NextNotify ==
  \/ \E t \in fragment.slotTimers : Notify(t)
  \/ ~NotifyDue /\ \E s \in Subs : Join(s)
  \/ ~NotifyDue /\ \E s \in Subs : Leave(s)
  \/ ~NotifyDue /\ Tick
  \/ ~NotifyDue /\ \E t \in fragment.slotTimers : GraceEnd(t)
  \/ ~NotifyDue /\ \E t \in fragment.slotTimers : Finalize(t)
  \/ ~NotifyDue /\ Advance

SpecNotify == InitNotify /\ [][NextNotify]_vars

\* A run whose accepted captions are kept with their time of reception,
\* while a subtitler joins
NextStamp ==
  \/ \E t \in fragment.slotTimers : Notify(t)
  \/ \E w \in pacerTimers : WordTimer(w)
  \/ ~NotifyDue /\ \E s \in Subs : StampedCaption(s, TextAB, FALSE)
  \/ ~NotifyDue /\ \E s \in Subs : StampedCaption(s, TextBC, TRUE)
  \/ ~NotifyDue /\ \E s \in Subs : Join(s)
  \/ ~NotifyDue /\ Tick
  \/ ~NotifyDue /\ \E t \in fragment.slotTimers : GraceEnd(t)
  \/ ~NotifyDue /\ \E t \in fragment.slotTimers : Finalize(t)
  \/ ~NotifyDue /\ Advance

SpecStamp == InitRun /\ [][NextStamp]_vars

\* A run in which connections close and captions, auto-sent ones too, arrive
\* at any time
NextLate ==
  \/ \E t \in fragment.slotTimers : Notify(t)
  \/ \E w \in pacerTimers : WordTimer(w)
  \/ ~NotifyDue /\ \E s \in Subs, autoSent \in BOOLEAN : Caption(s, TextAB, autoSent)
  \/ ~NotifyDue /\ \E s \in Subs : Disconnect(s)
  \/ ~NotifyDue /\ Tick
  \/ ~NotifyDue /\ \E t \in fragment.slotTimers : GraceEnd(t)
  \/ ~NotifyDue /\ \E t \in fragment.slotTimers : Finalize(t)
  \/ ~NotifyDue /\ Advance

SpecLate == InitRun /\ [][NextLate]_vars

\* A run that subtitlers join and nobody leaves
NextJoin ==
  \/ \E t \in fragment.slotTimers : Notify(t)
  \/ ~NotifyDue /\ \E s \in Subs : Join(s)
  \/ ~NotifyDue /\ Tick
  \/ ~NotifyDue /\ \E t \in fragment.slotTimers : GraceEnd(t)
  \/ ~NotifyDue /\ \E t \in fragment.slotTimers : Finalize(t)
  \/ ~NotifyDue /\ Advance

SpecJoin == InitRun /\ [][NextJoin]_vars

\* A run in which the subtitlers type while the roster changes
NextRoster ==
  \/ \E t \in fragment.slotTimers : Notify(t)
  \/ \E w \in pacerTimers : WordTimer(w)
  \/ ~NotifyDue /\ \E s \in Subs : Caption(s, TextAB, FALSE)
  \/ ~NotifyDue /\ \E s \in Subs : Join(s)
  \/ ~NotifyDue /\ \E s \in Subs : Leave(s)
  \/ ~NotifyDue /\ \E s \in Subs : Disconnect(s)
  \/ ~NotifyDue /\ Tick
  \/ ~NotifyDue /\ \E t \in fragment.slotTimers : GraceEnd(t)
  \/ ~NotifyDue /\ \E t \in fragment.slotTimers : Finalize(t)
  \/ ~NotifyDue /\ Advance

SpecRoster == InitRun /\ [][NextRoster]_vars

\* A run in which the subtitlers type the texts that exercise findOverlap
NextOverlap ==
  \/ \E t \in fragment.slotTimers : Notify(t)
  \/ \E w \in pacerTimers : WordTimer(w)
  \/ ~NotifyDue /\ \E s \in Subs, text \in OverlapTexts : Caption(s, text, FALSE)
  \/ ~NotifyDue /\ Tick
  \/ ~NotifyDue /\ \E t \in fragment.slotTimers : GraceEnd(t)
  \/ ~NotifyDue /\ \E t \in fragment.slotTimers : Finalize(t)
  \/ ~NotifyDue /\ Advance

SpecOverlap == InitRun /\ [][NextOverlap]_vars

\* The playlists: the transcoder appends segments to the source playlist, and
\* spectators and subtitlers fetch the live and the delayed playlist

\* the header of a source playlist
ManifestHeader(targetDuration, mediaSequence) ==
  << Line("#EXTM3U", 0),
     Line("#EXT-X-VERSION:", 3),
     Line("#EXT-X-TARGETDURATION:", targetDuration),
     Line("#EXT-X-MEDIA-SEQUENCE:", mediaSequence),
     Line("#EXT-X-INDEPENDENT-SEGMENTS", 0) >>

\* the number of segment files a playlist names
SegmentCount(content) ==
  IF content = NoManifest THEN 0
  ELSE Len(SelectSeq(content, LAMBDA t : t.kind = ".ts"))

\* the transcoder finishes a segment and adds it to the source playlist
\* (-f hls -hls_list_size 0)
WriteSegment ==
  /\ ffmpegProc
  /\ SegmentCount(manifest) < MaxSegments
  /\ LET old == IF manifest = NoManifest THEN ManifestHeader(segmentDuration, 0) ELSE manifest
         td == parsePlaylist(old).targetDuration
     IN manifest' = old \o <<Line("#EXTINF:", td), Line(".ts", SegmentCount(old))>>
  /\ UNCHANGED <<now, ffmpegProc, starting, currentMode, delaySec, fragment, gone, pacerLog,
                 finalized, adminOps, rosterOps, pacerTimers, gateLog, generation, served>>

\* GET /hls/live.m3u8
GetLive ==
  /\ served' = [route |-> "live",
                content |-> getLivePlaylist(manifest).content,
                error |-> getLivePlaylist(manifest).error]
  /\ UNCHANGED <<now, ffmpegProc, starting, currentMode, delaySec, fragment, gone, pacerLog,
                 finalized, adminOps, rosterOps, pacerTimers, gateLog, generation, manifest>>

\* GET /hls/delayed.m3u8
GetDelayed ==
  /\ served' = [route |-> "delayed",
                content |-> getDelayedPlaylist(manifest, delaySec).content,
                error |-> getDelayedPlaylist(manifest, delaySec).error]
  /\ UNCHANGED <<now, ffmpegProc, starting, currentMode, delaySec, fragment, gone, pacerLog,
                 finalized, adminOps, rosterOps, pacerTimers, gateLog, generation, manifest>>

\* the delays in force (the last body of POST /api/live/start or of
\* POST /api/delay set them) and the source playlists found when the
\* transcoder runs: its own, and one that begins at media sequence 7 with
\* segments of 4 s
HlsDelays == {0, 3, 4, 10, 20}

HlsManifests ==
  {NoManifest, ManifestHeader(segmentDuration, 0), ManifestHeader(4, 7)}

InitHls ==
  /\ now = 0
  /\ ffmpegProc = TRUE
  /\ starting = FALSE
  /\ currentMode = "fragmentation"
  /\ delaySec \in HlsDelays
  /\ fragment = FreshFragment(defaultGracePeriodPercent, defaultRequiredSubtitlers)
  /\ gone = {}
  /\ pacerLog = << >>
  /\ finalized = << >>
  /\ adminOps = 0
  /\ rosterOps = 0
  /\ pacerTimers = {}
  /\ gateLog = << >>
  /\ generation = 0
  /\ manifest \in HlsManifests
  /\ served = NoAnswer

NextHls ==
  \/ WriteSegment
  \/ GetLive
  \/ GetDelayed

SpecHls == InitHls /\ [][NextHls]_vars

\* A run with its captions, stopped and started again by the admin while
\* word timers are pending
NextPacer ==
  \/ \E t \in fragment.slotTimers : Notify(t)
  \/ \E w \in pacerTimers : WordTimer(w)
  \/ ~NotifyDue /\ \E s \in Subs, text \in CaptionTexts, autoSent \in BOOLEAN :
       Caption(s, text, autoSent)
  \/ ~NotifyDue /\ PostFragmentStop
  \/ ~NotifyDue /\ PostFragmentStart
  \/ ~NotifyDue /\ Tick
  \/ ~NotifyDue /\ \E t \in fragment.slotTimers : GraceEnd(t)
  \/ ~NotifyDue /\ \E t \in fragment.slotTimers : Finalize(t)
  \/ ~NotifyDue /\ Advance

SpecPacer == InitRun /\ [][NextPacer]_vars

\* The requests that start a run, with bodies the validation accepts and
\* bodies it refuses (Scenario G: D=10, O=5, g=40 with R=2 and with R=3), sent
\* to a server with two or three joined subtitlers, before and during a live
TryBodies ==
  { [delaySec |-> 14, slotDuration |-> 10, overlapDuration |-> 5, notifyBefore |-> 3,
     gracePeriodPercent |-> 40, requiredSubtitlers |-> 2],
    [delaySec |-> 14, slotDuration |-> 10, overlapDuration |-> 5, notifyBefore |-> 3,
     gracePeriodPercent |-> 40, requiredSubtitlers |-> 3],
    [delaySec |-> 2, slotDuration |-> 2, overlapDuration |-> 1, notifyBefore |-> 1,
     gracePeriodPercent |-> 0, requiredSubtitlers |-> 2],
    [delaySec |-> 1, slotDuration |-> 4, overlapDuration |-> 2],
    [slotDuration |-> 2, overlapDuration |-> 2],
    [overlapDuration |-> -1],
    [slotDuration |-> 0, overlapDuration |-> 0],
    [gracePeriodPercent |-> 101] }

InitStart ==
  /\ now = 0
  /\ ffmpegProc \in BOOLEAN
  /\ starting = FALSE
  /\ currentMode = IF ffmpegProc THEN "fragmentation" ELSE "none"
  /\ delaySec = defaultDelay
  /\ \E roster \in {<<"s1", "s2">>, <<"s1", "s2", "s3">>} :
       fragment = [FreshFragment(defaultGracePeriodPercent, defaultRequiredSubtitlers)
                     EXCEPT !.subtitlers = roster]
  /\ gone = {}
  /\ pacerLog = << >>
  /\ finalized = << >>
  /\ adminOps = 0
  /\ rosterOps = 0
  /\ pacerTimers = {}
  /\ gateLog = << >>
  /\ generation = 0
  /\ manifest = NoManifest
  /\ served = NoAnswer

NextStart ==
  \/ \E t \in fragment.slotTimers : Notify(t)
  \/ ~NotifyDue /\ \E body \in TryBodies : LiveStart(body)
  \/ ~NotifyDue /\ LiveReady
  \/ ~NotifyDue /\ PostFragmentStart
  \/ ~NotifyDue /\ \E s \in Subs : Join(s)
  \/ ~NotifyDue /\ Tick
  \/ ~NotifyDue /\ \E t \in fragment.slotTimers : GraceEnd(t)
  \/ ~NotifyDue /\ \E t \in fragment.slotTimers : Finalize(t)
  \/ ~NotifyDue /\ Advance

SpecStart == InitStart /\ [][NextStart]_vars

\* A run with its submission gate observed: the bodies POST /api/live/start
\* was accepted with, one without and one with a grace period (G = 1 s)
GateBodies ==
  {[delaySec |-> 2, slotDuration |-> 2, overlapDuration |-> 1, notifyBefore |-> 1,
    gracePeriodPercent |-> 0, requiredSubtitlers |-> 2],
   [delaySec |-> 3, slotDuration |-> 2, overlapDuration |-> 0, notifyBefore |-> 1,
    gracePeriodPercent |-> 50, requiredSubtitlers |-> 2]}

InitGate ==
  /\ now = 0
  /\ ffmpegProc = TRUE
  /\ starting = FALSE
  /\ currentMode = "fragmentation"
  /\ gone = {}
  /\ \E body \in GateBodies :
        /\ delaySec = body.delaySec
        /\ fragment = startFragmentMode(
                        ApplyStartBody(
                          [FreshFragment(defaultGracePeriodPercent, defaultRequiredSubtitlers)
                             EXCEPT !.subtitlers = <<"s1", "s2">>],
                          body))
  /\ pacerLog = << >>
  /\ finalized = << >>
  /\ adminOps = 0
  /\ rosterOps = 0
  /\ pacerTimers = {}
  /\ gateLog = << >>
  /\ generation = 1
  /\ manifest = NoManifest
  /\ served = NoAnswer

NextGate ==
  \/ \E t \in fragment.slotTimers : Notify(t)
  \/ \E w \in pacerTimers : WordTimer(w)
  \/ ~NotifyDue /\ \E s \in Subs, text \in CaptionTexts, autoSent \in BOOLEAN :
       GatedCaption(s, text, autoSent)
  \/ ~NotifyDue /\ Tick
  \/ ~NotifyDue /\ \E t \in fragment.slotTimers : GraceEnd(t)
  \/ ~NotifyDue /\ \E t \in fragment.slotTimers : Finalize(t)
  \/ ~NotifyDue /\ Advance
  \/ ~NotifyDue /\ AdvanceInSettle

SpecGate == InitGate /\ [][NextGate]_vars

\* ------------------------------------------------------------------------
\* Scenario A: D=10, O=4, g=0, R=3, delaySec=10, three subtitlers joined
\* ------------------------------------------------------------------------

\* "Les grandes villes sont Marseille,"
TextVilles ==
  <<"L", "e", "s", " ", "g", "r", "a", "n", "d", "e", "s", " ", "v", "i",
    "l", "l", "e", "s", " ", "s", "o", "n", "t", " ", "M", "a", "r", "s",
    "e", "i", "l", "l", "e", ",">>

\* "sont Marseille, Nice et Toulon"
TextNice ==
  <<"s", "o", "n", "t", " ", "M", "a", "r", "s", "e", "i", "l", "l", "e",
    ",", " ", "N", "i", "c", "e", " ", "e", "t", " ", "T", "o", "u", "l",
    "o", "n">>

\* "Nice et Toulon"
TextNiceTrimmed ==
  <<"N", "i", "c", "e", " ", "e", "t", " ", "T", "o", "u", "l", "o", "n">>

ScenarioTexts == {TextVilles, TextNice}

ScenarioABody ==
  [delaySec |-> 10, slotDuration |-> 10, overlapDuration |-> 4,
   gracePeriodPercent |-> 0, requiredSubtitlers |-> 3]

\* the clock of the scenario runs until after the finalize of slot 2 (22.8 s)
ScenarioMaxTime == 23000

\* the state after three joins and POST /api/live/start with ScenarioABody
\* accepted and resolved
InitScenarioA ==
  /\ now = 0
  /\ ffmpegProc = TRUE
  /\ starting = FALSE
  /\ currentMode = "fragmentation"
  /\ gone = {}
  /\ delaySec = ScenarioABody.delaySec
  /\ fragment = startFragmentMode(
                  ApplyStartBody(
                    [FreshFragment(defaultGracePeriodPercent, defaultRequiredSubtitlers)
                       EXCEPT !.subtitlers = <<"s1", "s2", "s3">>],
                    ScenarioABody))
  /\ pacerLog = << >>
  /\ finalized = << >>
  /\ adminOps = 0
  /\ rosterOps = 0
  /\ pacerTimers = {}
  /\ gateLog = << >>
  /\ generation = 1
  /\ manifest = NoManifest
  /\ served = NoAnswer

\* the text is in no slot yet
NotYetSent(text) ==
  \A k \in 1..Len(fragment.captionsBySlot) :
    \A c \in 1..Len(fragment.captionsBySlot[k].captions) :
      fragment.captionsBySlot[k].captions[c].text # text

\* the subtitlers type the texts of the scenario, each once, at any moment
NextScenarioA ==
  \/ \E t \in fragment.slotTimers : Notify(t)
  \/ \E w \in pacerTimers : WordTimer(w)
  \/ ~NotifyDue /\ \E s \in Subs, text \in ScenarioTexts :
       NotYetSent(text) /\ Caption(s, text, FALSE)
  \/ ~NotifyDue /\ Tick
  \/ ~NotifyDue /\ \E t \in fragment.slotTimers : GraceEnd(t)
  \/ ~NotifyDue /\ \E t \in fragment.slotTimers : Finalize(t)
  \/ ~NotifyDue /\ AdvanceUpTo(ScenarioMaxTime)

SpecScenarioA == InitScenarioA /\ [][NextScenarioA]_vars

\* ------------------------------------------------------------------------
\* Properties
\* ------------------------------------------------------------------------

Slots == fragment.captionsBySlot

\* the calls of sendToSpectators for slot i, as positions of pacerLog
EmissionsOf(i) == {n \in 1..Len(pacerLog) : pacerLog[n].slotIndex = i}

\* processSlotEnd has run for slot i
HasFinalized(i) == \E n \in 1..Len(finalized) : finalized[n] = i

\* C1: in every run the k-th slot created has slotIndex k (0, 1, 2, ...): the
\* position of a slot in captionsBySlot equals its slotIndex, and
\* currentSlotIndex is the number of slots created so far, whatever ticks,
\* joins, leaves, disconnects, restarts, stops and new runs happened.
C1_SlotIndexIsPosition ==
  /\ fragment.currentSlotIndex = Len(Slots)
  /\ \A k \in 1..Len(Slots) : Slots[k].slotIndex = k - 1

\* C1 witness: a run of at least three slots, one of them created by a
\* restart of the scheduler at the instant its predecessor was created
C1_Witness ==
  /\ Len(Slots) >= 3
  /\ \E k \in 2..Len(Slots) : Slots[k].startTime = Slots[k - 1].startTime

\* C2: whenever a slot j is assigned to a subtitler, every earlier slot i < j
\* of that subtitler has passed its submit deadline: slot j does not start
\* before startTime(i) + (D + G) * 1000.
C2_NoReassignmentBeforeDeadline ==
  \A i \in 1..Len(Slots), j \in 1..Len(Slots) :
    (i < j /\ Slots[i].subtitlerId # NoSub /\ Slots[i].subtitlerId = Slots[j].subtitlerId)
      => Slots[j].startTime >= SubmitDeadline(fragment, Slots[i])

\* C3: within one run no slot is handed to the delivery pacer twice.
C3_EmittedAtMostOnce ==
  \A n \in 1..Len(pacerLog), m \in 1..Len(pacerLog) :
    n # m => pacerLog[n].slotIndex # pacerLog[m].slotIndex

\* C4: the finalize callbacks of a run execute in slot-index order.
C4_FinalizeInSlotOrder ==
  \A n \in 1..Len(finalized), m \in 1..Len(finalized) :
    n < m => finalized[n] < finalized[m]

\* C5: whenever an active run ends, every slot that is not yet sent and has
\* text is handed to the delivery pacer by the step that ends the run.
C5_FlushOnEveryEnd ==
  [][ (fragment.active /\ ~fragment'.active) =>
        \A k \in 1..Len(Slots) :
          (~Slots[k].sent /\ getSlotRawText(Slots[k]) # << >>)
            => \E n \in (Len(pacerLog) + 1)..Len(pacerLog') :
                 pacerLog'[n].slotIndex = Slots[k].slotIndex ]_vars

\* C6: while a run is active, delaySec >= max(segmentDuration, D + G) for the
\* configuration in force.
C6_DelayCoversLatency ==
  fragment.active => delaySec >= getMinSpectatorDelaySec(fragment)

\* C7: when two consecutive slots i-1 and i both have text and are both
\* emitted, slot i is emitted without the overlap that findOverlap computes
\* between the tokens of slot i-1 and the tokens of slot i.
C7_OverlapRemoved ==
  \A n \in 1..Len(pacerLog) :
    LET e == pacerLog[n]
    IN (e.slotIndex >= 1 /\ e.raw # << >> /\ e.rawPrev # << >>
        /\ EmissionsOf(e.slotIndex - 1) # {})
         => e.text = detokenize(SliceFrom(tokenize(e.raw),
                                          findOverlap(tokenize(e.rawPrev), tokenize(e.raw))))

\* C8: whenever a slot i >= 1 is emitted, by a finalize or by the stop flush,
\* the emitted text is detokenize of the tokens of its raw text without the
\* first overlapFromPrev(i) ones (none when overlapFromPrev is unset); nothing
\* is removed from the end.
C8_TrimmedAtStart ==
  \A n \in 1..Len(pacerLog) :
    LET e == pacerLog[n]
    IN e.slotIndex >= 1
         => e.text = detokenize(SliceFrom(tokenize(e.raw), Max(e.overlap, 0)))

\* C8 witness: a slot i >= 1 with a stored overlap was emitted, trimmed, by
\* the finalize of its successor
C8_Witness ==
  \E n \in 1..Len(pacerLog) :
    /\ pacerLog[n].slotIndex >= 1
    /\ pacerLog[n].overlap > 0
    /\ pacerLog[n].text # << >>
    /\ pacerLog[n].text # pacerLog[n].raw
    /\ pacerLog[n].by = "finalize"

\* the texts of Scenario A are in place: slot 0 and slot 1 hold theirs and
\* slot 2 holds none
ScenarioATexts ==
  /\ Len(Slots) >= 2
  /\ getSlotRawText(Slots[1]) = TextVilles
  /\ getSlotRawText(Slots[2]) = TextNice
  /\ Len(Slots) >= 3 => getSlotRawText(Slots[3]) = << >>

\* C9 (as settled): in Scenario A slot 1 gets overlap count 3 at its finalize;
\* slot 0 is emitted in full, once, by its own finalize; slot 1 is emitted as
\* "Nice et Toulon", once, by the finalize of slot 2.
C9_ScenarioA ==
  ScenarioATexts =>
    /\ HasFinalized(1) => Slots[2].overlapFromPrev = 3
    /\ HasFinalized(0) <=> EmissionsOf(0) # {}
    /\ \A n \in EmissionsOf(0) :
         /\ pacerLog[n].text = TextVilles
         /\ pacerLog[n].by = "finalize"
         /\ pacerLog[n].bySlot = 0
    /\ HasFinalized(2) <=> EmissionsOf(1) # {}
    /\ \A n \in EmissionsOf(1) :
         /\ pacerLog[n].text = TextNiceTrimmed
         /\ pacerLog[n].by = "finalize"
         /\ pacerLog[n].bySlot = 2
    /\ Cardinality(EmissionsOf(0)) <= 1
    /\ Cardinality(EmissionsOf(1)) <= 1

\* C9 witness: Scenario A has run until the finalize of slot 2 and slot 1 was
\* emitted
C9_Witness ==
  /\ ScenarioATexts
  /\ HasFinalized(2)
  /\ EmissionsOf(0) # {}
  /\ EmissionsOf(1) # {}

\* C9 as stated: in Scenario A slot 1 gets overlap count 3; slot 0 is emitted
\* in full by the finalize of slot 1; slot 1 is emitted as "Nice et Toulon" by
\* its own finalize.
C9_ScenarioA_AsStated ==
  ScenarioATexts =>
    /\ HasFinalized(1) => Slots[2].overlapFromPrev = 3
    /\ HasFinalized(1) <=> EmissionsOf(0) # {}
    /\ \A n \in EmissionsOf(0) :
         /\ pacerLog[n].text = TextVilles
         /\ pacerLog[n].bySlot = 1
    /\ HasFinalized(1) <=> EmissionsOf(1) # {}
    /\ \A n \in EmissionsOf(1) :
         /\ pacerLog[n].text = TextNiceTrimmed
         /\ pacerLog[n].bySlot = 1

\* Scenario B: D=6, O=0, g=0, R=1
ScenarioBBody ==
  [slotDuration |-> 6, overlapDuration |-> 0, gracePeriodPercent |-> 0,
   requiredSubtitlers |-> 1]

\* the configuration of Scenario B passes validateFragmentConfig
ScenarioBAccepted ==
  LET f == ApplyStartBody(FreshFragment(defaultGracePeriodPercent, defaultRequiredSubtitlers),
                          ScenarioBBody)
  IN validateFragmentConfig(f, f.requiredSubtitlers)

\* the step is the finalize of slot 0
FinalizesFirstSlot == finalized' = Append(finalized, 0)

\* C10: at the finalize of slot 0, a non-empty raw text is emitted at once and
\* as it is (finalText = raw text, sent, one call of the pacer, a fused record
\* with overlapCount 0, overlapFromPrev left unset); with an empty raw text the
\* slot becomes sent with an empty finalText and the pacer is not called.  The
\* configuration of Scenario B is accepted.
C10_FirstSlotFinalize ==
  [][ /\ ScenarioBAccepted
      /\ FinalizesFirstSlot =>
           LET raw == getSlotRawText(Slots[1])
               after == fragment'.captionsBySlot[1]
           IN /\ after.sent
              /\ after.finalText = raw
              /\ after.overlapFromPrev = -1
              /\ raw # << >> =>
                   /\ Len(pacerLog') = Len(pacerLog) + 1
                   /\ pacerLog'[Len(pacerLog')].slotIndex = 0
                   /\ pacerLog'[Len(pacerLog')].text = raw
                   /\ fragment'.fusedCaptions =
                        Append(fragment.fusedCaptions,
                               [text |-> raw, slotIndex |-> 0,
                                nextSlotIndex |-> NoSlot, overlapCount |-> 0])
              /\ raw = << >> =>
                   /\ pacerLog' = pacerLog
                   /\ fragment'.fusedCaptions = fragment.fusedCaptions ]_vars

\* C10 witness: slot 0 had text and its finalize has emitted it
C10_Witness ==
  /\ HasFinalized(0)
  /\ \E n \in EmissionsOf(0) :
       /\ pacerLog[n].by = "finalize"
       /\ pacerLog[n].bySlot = 0
       /\ pacerLog[n].text # << >>
  /\ Len(Slots) >= 1
  /\ Slots[1].sent
  /\ Slots[1].overlapFromPrev = -1

\* ------------------------------------------------------------------------
\* The submission gate (C11, C12)
\* ------------------------------------------------------------------------

\* part occurs in text
Contains(text, part) ==
  \E o \in 0..Len(text) :
    /\ o + Len(part) <= Len(text)
    /\ SubSeq(text, o + 1, o + Len(part)) = part

\* the step is a call of handleCaption, and the record gateLog keeps of it
IsGateStep == Len(gateLog') = Len(gateLog) + 1
GateStep == gateLog'[Len(gateLog')]

\* the positions of the slots of the history assigned to subtitler s
SlotsOf(s) == {k \in 1..Len(Slots) : Slots[k].subtitlerId = s}

\* the late automatic captions slot i has accepted
LateAutoCaptionsOf(i) ==
  {n \in 1..Len(gateLog) :
     /\ gateLog[n].autoSent
     /\ ~gateLog[n].mapped
     /\ gateLog[n].late
     /\ gateLog[n].verdict = "accepted"
     /\ gateLog[n].slotIndex = i}

\* Scenario C: D=10, g=20 gives G=2; the deadline of slot 0 is at 12.0 s, the
\* caption of 12.3 s is past it and before the finalize of 12.8 s
ScenarioCBody ==
  [delaySec |-> 12, slotDuration |-> 10, overlapDuration |-> 2, notifyBefore |-> 3,
   gracePeriodPercent |-> 20, requiredSubtitlers |-> 2]

ScenarioCDeadline ==
  LET f == ApplyStartBody(FreshFragment(defaultGracePeriodPercent, defaultRequiredSubtitlers),
                          ScenarioCBody)
      deadline == SubmitDeadline(f, [startTime |-> 0])
  IN /\ getFragmentGraceSeconds(f) = 2
     /\ deadline = 12000
     /\ deadline + LateArrivalMs > deadline
     /\ deadline + LateArrivalMs < deadline + FinalizeSettleMs

AppendsManual(k) ==
  /\ k <= Len(fragment'.captionsBySlot)
  /\ Len(fragment'.captionsBySlot[k].captions) = Len(Slots[k].captions) + 1
  /\ ~fragment'.captionsBySlot[k].captions[Len(Slots[k].captions) + 1].autoSent

\* C12: a manual caption is never appended to a slot whose deadline
\* startTime + (D+G)*1000 has passed; a caption of a sender with no open-slot
\* entry and no slot in the history is rejected; a rejected caption leaves the
\* caption list of every slot as it was and sends neither fragment:raw-caption
\* to the admins nor the caption echo to the other subtitlers.
C12_LateManualRejected ==
  [][ /\ \A k \in 1..Len(Slots) :
           (fragment.active /\ fragment'.active /\ AppendsManual(k)) =>
             now <= SubmitDeadline(fragment, Slots[k])
      /\ IsGateStep =>
           /\ (~GateStep.mapped /\ SlotsOf(GateStep.subtitlerId) = {}) =>
                GateStep.verdict = "REJECTED - No open slot"
           /\ (~GateStep.autoSent /\ GateStep.expired) =>
                GateStep.verdict # "accepted"
           /\ GateStep.verdict # "accepted" =>
                /\ fragment'.captionsBySlot = Slots
                /\ GateStep.messages = {}
           /\ GateStep.verdict = "accepted" =>
                GateStep.messages = {[type |-> "fragment:raw-caption", to |-> "admins"],
                                     [type |-> "caption", to |-> "other subtitlers"]} ]_vars

\* C12 witness: a manual caption of a subtitler whose slots are all past their
\* deadline was rejected, and so was a caption of a sender that never had a
\* slot; the slots hold no manual caption of either
C12_Witness ==
  /\ \E n \in 1..Len(gateLog) :
       /\ ~gateLog[n].autoSent
       /\ gateLog[n].expired
       /\ gateLog[n].verdict = "REJECTED - No open slot"
       /\ gateLog[n].messages = {}
  /\ \E n \in 1..Len(gateLog) :
       /\ ~gateLog[n].mapped
       /\ SlotsOf(gateLog[n].subtitlerId) = {}
       /\ gateLog[n].verdict = "REJECTED - No open slot"
  /\ \A k \in 1..Len(Slots) : Slots[k].captions = << >>

\* ------------------------------------------------------------------------
\* Starting a run (C13, C14)
\* ------------------------------------------------------------------------

\* the configuration breaks one of S > 0, O >= 0, O < D, 0 <= g <= 100,
\* R >= ceil((D+G)/S), with S = D - O and G = floor(D*g/100)
ConfigViolates(f) ==
  LET D == f.slotDuration
      O == f.overlapDuration
      g == f.gracePeriodPercent
      R == f.requiredSubtitlers
      S == D - O
      G == (D * g) \div 100
  IN \/ S <= 0
     \/ O < 0
     \/ O >= D
     \/ g < 0
     \/ g > 100
     \/ R * S < D + G

\* Scenario G: D=10, O=5, g=40, R=2 gives G=4, S=5 and a minimum of 3, which
\* the error names
ScenarioGBody ==
  [delaySec |-> 14, slotDuration |-> 10, overlapDuration |-> 5, notifyBefore |-> 3,
   gracePeriodPercent |-> 40, requiredSubtitlers |-> 2]

ScenarioGRefused ==
  LET f == ApplyStartBody(FreshFragment(defaultGracePeriodPercent, defaultRequiredSubtitlers),
                          ScenarioGBody)
  IN /\ getFragmentGraceSeconds(f) = 4
     /\ getFragmentStrideSeconds(f) = 5
     /\ getFragmentMinRequiredSubtitlers(f) = 3
     /\ ConfigViolates(f)
     /\ ValidationError(f, f.requiredSubtitlers).error # "none"
     /\ ValidationError(f, f.requiredSubtitlers).minRequired = 3

\* C13: with a configuration that breaks S > 0, O >= 0, O < D, 0 <= g <= 100
\* or R >= ceil((D+G)/S), POST /api/live/start and POST /api/fragment/start
\* answer with an error and start nothing, and startFragmentScheduler creates
\* no slot and registers no interval, whoever calls it.  Scenario G is
\* refused with an error that names 3.
C13_StartRefused ==
  /\ [](/\ ScenarioGRefused
        /\ \A body \in TryBodies :
             ConfigViolates(ApplyStartBody(fragment, body)) =>
               LiveStartAnswer(body).status # 200)
  /\ [](ConfigViolates(fragment) =>
          /\ PostFragmentStartAnswer.status # 200
          /\ startFragmentScheduler(fragment).captionsBySlot = fragment.captionsBySlot
          /\ ~startFragmentScheduler(fragment).schedulerTimer.on
          /\ startFragmentScheduler(fragment).slotTimers = {})
  /\ [][ /\ \A body \in TryBodies :
              (LiveStart(body) /\ ConfigViolates(ApplyStartBody(fragment, body))) =>
                /\ starting' = starting
                /\ ffmpegProc' = ffmpegProc
                /\ fragment'.active = fragment.active
                /\ fragment'.captionsBySlot = fragment.captionsBySlot
                /\ fragment'.schedulerTimer = fragment.schedulerTimer
         /\ (starting /\ ~starting' /\ ffmpegProc' /\ ConfigViolates(fragment)) =>
              /\ fragment'.captionsBySlot \in {<< >>, fragment.captionsBySlot}
              /\ fragment'.schedulerTimer \in {NoTimer, fragment.schedulerTimer}
              /\ fragment'.slotTimers \subseteq fragment.slotTimers ]_vars

\* C13 witness: the body of Scenario G was sent to a running live and refused;
\* POST /api/fragment/start is refused as well, with an error that names 3,
\* and no run has started
C13_Witness ==
  /\ adminOps >= 1
  /\ ffmpegProc
  /\ ~starting
  /\ fragment.slotDuration = 10
  /\ fragment.overlapDuration = 5
  /\ fragment.gracePeriodPercent = 40
  /\ fragment.requiredSubtitlers = 2
  /\ PostFragmentStartAnswer.status = 400
  /\ PostFragmentStartAnswer.minRequired = 3
  /\ ~fragment.active
  /\ fragment.captionsBySlot = << >>
  /\ ~fragment.schedulerTimer.on

\* C14: a POST /api/live/start that answers with an error leaves delaySec,
\* slotDuration, overlapDuration, notifyBefore, gracePeriodPercent,
\* requiredSubtitlers and currentMode as they were before the request.
C14_FailedStartKeepsSettings ==
  [][ \A body \in TryBodies :
        (LiveStart(body) /\ LiveStartAnswer(body).status # 200) =>
          /\ delaySec' = delaySec
          /\ fragment'.slotDuration = fragment.slotDuration
          /\ fragment'.overlapDuration = fragment.overlapDuration
          /\ fragment'.notifyBefore = fragment.notifyBefore
          /\ fragment'.gracePeriodPercent = fragment.gracePeriodPercent
          /\ fragment'.requiredSubtitlers = fragment.requiredSubtitlers
          /\ currentMode' = currentMode ]_vars

\* ------------------------------------------------------------------------
\* The slot scheduler and its timers (C15, C16)
\* ------------------------------------------------------------------------

\* fewer than R subtitlers are active
TooFewActive(f) == Len(getActiveSubtitlers(f)) < f.requiredSubtitlers

\* C15: a call of startNextSlot made while fewer than R subtitlers are active
\* creates no slot, sets no slot timer and leaves currentSlotIndex and the
\* open-slot map as they are; the interval stays registered with its period
\* and comes due again one period later.
C15_NoSlotWhenTooFew ==
  /\ [](TooFewActive(fragment) => startNextSlot(fragment) = fragment)
  /\ [][ (Tick /\ TooFewActive(fragment)) =>
           /\ fragment'.captionsBySlot = fragment.captionsBySlot
           /\ fragment'.slotTimers = fragment.slotTimers
           /\ fragment'.currentSlotIndex = fragment.currentSlotIndex
           /\ fragment'.openSlotBySubtitlerId = fragment.openSlotBySubtitlerId
           /\ fragment'.schedulerTimer.on
           /\ fragment'.schedulerTimer.period = fragment.schedulerTimer.period
           /\ fragment'.schedulerTimer.due =
                fragment.schedulerTimer.due + fragment.schedulerTimer.period ]_vars

\* C15 witness: the run began with slot 0 at time 0, then a subtitler left; a
\* tick has since run and created nothing, and the interval is still
\* registered
C15_Witness ==
  /\ fragment.active
  /\ adminOps = 0
  /\ rosterOps = 1
  /\ TooFewActive(fragment)
  /\ Len(Slots) = 1
  /\ Slots[1].startTime = 0
  /\ fragment.currentSlotIndex = 1
  /\ fragment.schedulerTimer.on
  /\ fragment.schedulerTimer.due >= 2 * fragment.schedulerTimer.period

\* C16: the grace-end callback of a slot removes the open-slot entry of the
\* slot's subtitler only if the entry maps to that slot; an entry that maps to
\* another slot is left as it is, and so is the entry of every other
\* subtitler.
C16_GraceEndKeepsRemappedEntry ==
  [][ \A t \in fragment.slotTimers :
        GraceEnd(t) =>
          LET slot == Slots[t.slot + 1]
              open == fragment.openSlotBySubtitlerId
          IN \A s \in Subs :
               fragment'.openSlotBySubtitlerId[s] =
                 IF s = slot.subtitlerId /\ open[s] = slot.slotIndex
                 THEN NoSlot
                 ELSE open[s] ]_vars

\* C16 witness: the grace end of slot i has run (endTime is set) after its
\* subtitler had been given the newer slot j, and the entry still maps to j
C16_Witness ==
  \E i, j \in 1..Len(Slots) :
    /\ i < j
    /\ Slots[i].subtitlerId = Slots[j].subtitlerId
    /\ Slots[i].endTime # -1
    /\ Slots[j].startTime < Slots[i].endTime
    /\ Slots[j].endTime = -1
    /\ fragment.openSlotBySubtitlerId[Slots[j].subtitlerId] = Slots[j].slotIndex

\* ------------------------------------------------------------------------
\* The delivery pacer (C17, C18, C19)
\* ------------------------------------------------------------------------

\* the calls of sendToSpectators the step makes: their numbers in pacerLog'
NewCalls ==
  IF Len(pacerLog') > Len(pacerLog) THEN (Len(pacerLog) + 1)..Len(pacerLog') ELSE {}

\* the word timers the step sets for call number c
NewTimersOf(c) == {w \in pacerTimers' \ pacerTimers : w.id.call = c}

\* Scenario F: "a b c d" with D=8 is scheduled at 0, 2000, 4000 and 6000 ms
\* after baseDisplayAt, and only the last word has isLast
ScenarioFText == <<"a", " ", "b", " ", "c", " ", "d">>

ScenarioFTimers ==
  WordTimersOfCall([text |-> ScenarioFText, slotDurationMs |-> 8 * MsPerSec, at |-> 0,
                    delayMs |-> 0, slotIndex |-> 0], 0)

ScenarioFSchedule ==
  /\ {<<w.wordIndex, w.due, w.isLast>> : w \in ScenarioFTimers} =
       {<<0, 0, FALSE>>, <<1, 2000, FALSE>>, <<2, 4000, FALSE>>, <<3, 6000, TRUE>>}
  /\ \A w \in ScenarioFTimers : w.totalWords = 4 /\ w.id = 0

\* C17: a call of sendToSpectators with a final text of n >= 1 words sets
\* exactly n word timers, all with the same captionId; the timer of word k
\* (k = 0..n-1) is due delayMs + k*floor(D*1000/n) after the call, with
\* delayMs = max(0, slot.startTime + delaySec*1000 - now), and carries
\* wordIndex k, totalWords n and isLast exactly when k = n-1; the due times do
\* not decrease with k.  Scenario F gives 0, 2000, 4000, 6000.
C17_WordSchedule ==
  /\ [](ScenarioFSchedule)
  /\ [][ \A c \in NewCalls :
           LET call == pacerLog'[c]
               text == SplitWords(call.text, << >>)
               n == Len(text)
               slot == Slots[call.slotIndex + 1]
               delayMs == Max(0, slot.startTime + delaySec * 1000 - now)
               step == (fragment.slotDuration * 1000) \div n
               timers == NewTimersOf(c)
           IN n >= 1 =>
                /\ Cardinality(timers) = n
                /\ \A k \in 0..(n - 1) :
                     \E w \in timers :
                       /\ w.wordIndex = k
                       /\ w.word = text[k + 1]
                       /\ w.due = now + delayMs + k * step
                       /\ w.totalWords = n
                       /\ w.isLast = (k = n - 1)
                /\ \A v, w \in timers :
                     /\ v.id = w.id
                     /\ v.wordIndex <= w.wordIndex => v.due <= w.due ]_vars

\* C17 witness: a text of four words has been handed to the pacer before its
\* display time, and its four word timers are pending
C17_Witness ==
  \E w \in pacerTimers :
    /\ w.totalWords = 4
    /\ w.isLast
    /\ w.wordIndex = 3
    /\ Cardinality({v \in pacerTimers : v.id = w.id}) = 4
    /\ \E v \in pacerTimers : v.id = w.id /\ v.wordIndex = 0 /\ v.due > now

\* C18: while delaySec >= minDelay = max(segmentDuration, D+G), every text
\* reaches the pacer no later than slot.startTime + delaySec*1000, so that
\* baseDisplayAt - now is not negative at the call and word 0 is due exactly
\* at slot.startTime + delaySec*1000.
C18_DeliveredOnTime ==
  [][ \A c \in NewCalls :
        LET call == pacerLog'[c]
            slot == Slots[call.slotIndex + 1]
            baseDisplayAtMs == slot.startTime + delaySec * 1000
        IN delaySec >= getMinSpectatorDelaySec(fragment) =>
             /\ baseDisplayAtMs - now >= 0
             /\ \A w \in NewTimersOf(c) : w.wordIndex = 0 => w.due = baseDisplayAtMs ]_vars

\* C19: a word timer set during one run never broadcasts its caption:word
\* after that run has been stopped and a new run has started: the word timers
\* that fire belong to the run in progress.
C19_StaleWordsDiscarded ==
  [][ \A w \in pacerTimers : WordTimer(w) => w.generation = generation ]_vars

\* ------------------------------------------------------------------------
\* Stopping a run (C20)
\* ------------------------------------------------------------------------

\* the step is a callback of the scheduler: a tick of the interval, a
\* notification, a grace end or a finalize
SchedulerCallback ==
  \/ Tick
  \/ \E t \in fragment.slotTimers : Notify(t)
  \/ \E t \in fragment.slotTimers : GraceEnd(t)
  \/ \E t \in fragment.slotTimers : Finalize(t)

\* C20: the stop of a run (POST /api/fragment/stop, POST /api/live/stop, the
\* exit of the transcoder) leaves no interval and no slot timer pending, so
\* that no tick, notification, grace end or finalize of the stopped run runs
\* afterwards: while no run is active no such callback runs, no slot is
\* created, no open-slot entry changes and processSlotEnd is not called.
C20_StopCancelsCallbacks ==
  /\ [](~fragment.active =>
          /\ ~fragment.schedulerTimer.on
          /\ fragment.slotTimers = {})
  /\ [][ /\ (fragment.active /\ ~fragment'.active) =>
              /\ ~fragment'.schedulerTimer.on
              /\ fragment'.slotTimers = {}
         /\ SchedulerCallback => fragment.active
         /\ (~fragment.active /\ ~fragment'.active) =>
              /\ fragment'.captionsBySlot = fragment.captionsBySlot
              /\ fragment'.openSlotBySubtitlerId = fragment.openSlotBySubtitlerId
              /\ finalized' = finalized ]_vars

\* C20 witness: a run was stopped before the finalize of its first slot, the
\* time that finalize was due has passed and it has not run
C20_Witness ==
  /\ ~fragment.active
  /\ generation = 1
  /\ finalized = << >>
  /\ now = MaxTime
  /\ fragment.captionsBySlot = << >>
  /\ ~fragment.schedulerTimer.on
  /\ fragment.slotTimers = {}

\* ------------------------------------------------------------------------
\* The playlists (C21, C22)
\* ------------------------------------------------------------------------

\* the segment files the source playlist names, oldest first, its media
\* sequence and its target duration, read off its lines
UpstreamUris == SelectSeq(manifest, LAMBDA t : t.kind = ".ts")
UpstreamBase == (CHOOSE t \in {manifest[k] : k \in 1..Len(manifest)} :
                   t.kind = "#EXT-X-MEDIA-SEQUENCE:").value
UpstreamTargetDuration == (CHOOSE t \in {manifest[k] : k \in 1..Len(manifest)} :
                             t.kind = "#EXT-X-TARGETDURATION:").value
UpstreamTotal == Len(UpstreamUris)

\* the segment files a served playlist names and its media sequence
ViewUris(content) == SelectSeq(content, LAMBDA t : t.kind = ".ts")
ViewSequence(content) ==
  (CHOOSE t \in {content[k] : k \in 1..Len(content)} :
     t.kind = "#EXT-X-MEDIA-SEQUENCE:").value

\* every segment file of a served playlist follows its own EXTINF line
ViewWellFormed(content) ==
  \A k \in 1..Len(content) :
    content[k].kind = ".ts" => (k > 1 /\ content[k - 1].kind = "#EXTINF:")

\* the variables of the session
session == <<now, ffmpegProc, starting, currentMode, delaySec, fragment, gone, pacerLog,
             finalized, adminOps, rosterOps, pacerTimers, gateLog, generation>>

\* C21: for a source playlist of total >= 1 segments the live playlist holds
\* exactly the last min(N, total) segments in their order, N = hlsListSize,
\* with media sequence base + (total - kept); with 3 segments it holds all 3
\* with media sequence base.  Serving it changes neither the session nor the
\* source playlist.
C21_LiveWindow ==
  /\ [](manifest # NoManifest /\ UpstreamTotal >= 1 =>
          LET view == getLivePlaylist(manifest)
              kept == Min(hlsListSize, UpstreamTotal)
          IN /\ view.error = "none"
             /\ ViewWellFormed(view.content)
             /\ ViewUris(view.content) =
                  SubSeq(UpstreamUris, UpstreamTotal - kept + 1, UpstreamTotal)
             /\ ViewSequence(view.content) = UpstreamBase + (UpstreamTotal - kept)
             /\ UpstreamTotal = 3 =>
                  /\ ViewUris(view.content) = UpstreamUris
                  /\ ViewSequence(view.content) = UpstreamBase)
  /\ [][ GetLive =>
           /\ UNCHANGED session
           /\ manifest' = manifest
           /\ served'.content = getLivePlaylist(manifest).content ]_vars

\* C21 witness: the live playlist was served from a source playlist of more
\* than N segments that begins at media sequence 7, and holds the last N
C21_Witness ==
  /\ served.route = "live"
  /\ manifest # NoManifest
  /\ UpstreamTotal > hlsListSize
  /\ UpstreamBase = 7
  /\ served.error = "none"
  /\ Len(ViewUris(served.content)) = hlsListSize
  /\ ViewSequence(served.content) = 7 + UpstreamTotal - hlsListSize
  /\ ViewUris(served.content)[hlsListSize] = UpstreamUris[UpstreamTotal]

\* C22: for a source playlist of total >= 1 segments and
\* delaySegs = floor(delaySec / targetDuration), the delayed playlist fails
\* with "Not enough segments" exactly when total - delaySegs <= 0, and changes
\* nothing; otherwise it holds the segments of indices
\* [max(0, endIdx - N), endIdx), endIdx = total - delaySegs, with media
\* sequence base + startIdx, and so none of the newest delaySegs segments.
\* With 3 segments, target duration 2 and delaySec 10 it fails.
C22_DelayedWindow ==
  /\ [](manifest # NoManifest /\ UpstreamTotal >= 1 =>
          LET view == getDelayedPlaylist(manifest, delaySec)
              delaySegs == delaySec \div UpstreamTargetDuration
              endIdx == UpstreamTotal - delaySegs
              startIdx == Max(0, endIdx - hlsListSize)
          IN /\ (view.error = "Not enough segments") = (UpstreamTotal - delaySegs <= 0)
             /\ view.error \in {"none", "Not enough segments"}
             /\ view.error = "none" =>
                  /\ ViewWellFormed(view.content)
                  /\ ViewUris(view.content) = SubSeq(UpstreamUris, startIdx + 1, endIdx)
                  /\ ViewSequence(view.content) = UpstreamBase + startIdx
                  /\ \A k \in 1..Len(ViewUris(view.content)) :
                       \A j \in (UpstreamTotal - delaySegs + 1)..UpstreamTotal :
                         ViewUris(view.content)[k] # UpstreamUris[j]
             /\ (UpstreamTotal = 3 /\ UpstreamTargetDuration = 2 /\ delaySec = 10) =>
                  view.error = "Not enough segments")
  /\ [][ GetDelayed =>
           /\ UNCHANGED session
           /\ manifest' = manifest
           /\ served'.error = getDelayedPlaylist(manifest, delaySec).error ]_vars

\* C22 witness: with 3 segments of 2 s and delaySec 10 the delayed playlist
\* was refused for want of segments
C22_Witness ==
  /\ served.route = "delayed"
  /\ served.error = "Not enough segments"
  /\ manifest # NoManifest
  /\ UpstreamTotal = 3
  /\ UpstreamTargetDuration = 2
  /\ delaySec = 10

\* ------------------------------------------------------------------------
\* findOverlap (C23, C24, C30)
\* ------------------------------------------------------------------------

\* the tokens of the raw text of the slot at position k
SlotTokens(k) == tokenize(getSlotRawText(Slots[k]))

\* at least 70% of the positions of the last k tokens of A and the first k
\* tokens of B have a similarity of at least 0.8
Qualifies(A, B, k) ==
  10 * Cardinality({i \in 0..(k - 1) : SimilarWords(A[Len(A) - k + i + 1], B[i + 1])})
    >= 7 * k

\* the largest k in 1..min(|A|, |B|, 15) that qualifies, 0 when there is none
LargestOverlap(A, B) ==
  LET ks == {k \in 1..Min(Len(A), Min(Len(B), 15)) : Qualifies(A, B, k)}
  IN IF ks = {} THEN 0 ELSE CHOOSE k \in ks : \A j \in ks : j <= k

\* the step is the finalize of the slot of index i >= 1, whose raw text is
\* that of its predecessor
FinalizesTwin(i) ==
  /\ i >= 1
  /\ i + 1 <= Len(Slots)
  /\ finalized' = Append(finalized, i)
  /\ SlotTokens(i + 1) # << >>
  /\ SlotTokens(i + 1) = SlotTokens(i)

FinalizesSlot(i) ==
  /\ i >= 1
  /\ i + 1 <= Len(Slots)
  /\ finalized' = Append(finalized, i)
  /\ SlotTokens(i + 1) # << >>

\* C24 as stated: at the finalize of a slot i >= 1 with non-empty raw text,
\* the first overlapFromPrev(i) tokens of slot i are equal, token for token,
\* to the overlap suffix of slot i-1 selected by findOverlap.
C24_DroppedPrefix_AsStated ==
  [][ \A i \in 1..(Len(Slots) - 1) :
        FinalizesSlot(i) =>
          LET k == fragment'.captionsBySlot[i + 1].overlapFromPrev
              cur == SlotTokens(i + 1)
              prev == SlotTokens(i)
          IN /\ k <= Len(cur)
             /\ SubSeq(cur, 1, k) = findOverlapWords(prev, cur) ]_vars

\* C24 amended: at the finalize of a slot i >= 1 with non-empty raw text, the
\* first overlapFromPrev(i) tokens of slot i match the overlap suffix of slot
\* i-1 selected by findOverlap under the matching rules: the suffix has
\* overlapFromPrev(i) tokens and at least 70% of its positions hold a token of
\* similarity >= 0.8 with the token of slot i at that position.  Matched
\* tokens may differ in case or in a few letters, and up to 30% of the
\* positions may hold unrelated tokens.
C24_DroppedPrefix ==
  [][ \A i \in 1..(Len(Slots) - 1) :
        FinalizesSlot(i) =>
          LET k == fragment'.captionsBySlot[i + 1].overlapFromPrev
              cur == SlotTokens(i + 1)
              prev == SlotTokens(i)
              suffix == SliceFrom(prev, Len(prev) - k)
          IN /\ k <= Len(cur)
             /\ k <= Len(prev)
             /\ k > 0 =>
                  10 * Cardinality({n \in 1..k : SimilarWords(suffix[n], cur[n])})
                    >= 7 * k ]_vars

\* C24 witness: slot 0 holds "a b", slot 1 holds "B c" and has been finalized
\* with a stored overlap of one token, "B" for "b"
C24_Witness ==
  /\ Len(Slots) >= 2
  /\ HasFinalized(1)
  /\ SlotTokens(1) = tokenize(TextAB)
  /\ SlotTokens(2) = tokenize(TextCapitalBC)
  /\ Slots[2].overlapFromPrev = 1
  /\ SlotTokens(2)[1] # SlotTokens(1)[2]

\* the token sequences findOverlap is looked at with: those of the slots and
\* the empty one
OverlapInputs == {SlotTokens(k) : k \in 1..Len(Slots)} \cup {<< >>}

\* C30: findOverlap(A, B) returns the largest k in 1..min(|A|, |B|, 15) for
\* which at least 70% of the positions i in [0, k) have similarity
\* (A[|A|-k+i], B[i]) >= 0.8, together with the last k tokens of A, and
\* length 0 when there is no such k; with an empty A or B it returns length 0.
\* The overlap stored at the finalize of a slot is that k.
C30_LargestOverlap ==
  /\ [](\A A \in OverlapInputs, B \in OverlapInputs :
          LET k == findOverlap(A, B)
          IN /\ k = LargestOverlap(A, B)
             /\ k > 0 => findOverlapWords(A, B) = SubSeq(A, Len(A) - k + 1, Len(A))
             /\ k = 0 => findOverlapWords(A, B) = << >>
             /\ findOverlap(A, << >>) = 0
             /\ findOverlap(<< >>, B) = 0)
  /\ [][ \A i \in 1..(Len(Slots) - 1) :
           FinalizesSlot(i) =>
             fragment'.captionsBySlot[i + 1].overlapFromPrev =
               LargestOverlap(SlotTokens(i), SlotTokens(i + 1)) ]_vars

\* C30 witness: slot 0 holds "a b c d", slot 1 holds "z b c d" and has been
\* finalized with a stored overlap of 4, three positions of four matching;
\* a third slot is still empty
C30_Witness ==
  /\ Len(Slots) >= 3
  /\ HasFinalized(1)
  /\ SlotTokens(1) = tokenize(TextABCD)
  /\ SlotTokens(2) = tokenize(TextZBCD)
  /\ Slots[2].overlapFromPrev = 4
  /\ LargestOverlap(SlotTokens(1), SlotTokens(2)) = 4
  /\ SlotTokens(3) = << >>

\* ------------------------------------------------------------------------
\* Slot assignment (C25)
\* ------------------------------------------------------------------------

\* the connected roster in joinedAt order after the step
ActiveListAfter == SelectSeq(fragment'.subtitlers, LAMBDA s : s \notin gone')

\* caps is what the slot held and more
KeepsCaptions(before, after) ==
  /\ Len(before) <= Len(after)
  /\ SubSeq(after, 1, Len(before)) = before

\* C25: the subtitler of slot i is activeList[i mod activeList.length] of the
\* connected roster in joinedAt order at the instant the slot starts; the
\* subtitler of a slot record never changes afterwards and its stored
\* captions remain, in particular when that subtitler disconnects or leaves.
C25_AssignmentPinned ==
  [][ /\ \A pos \in 1..Len(fragment'.captionsBySlot) :
           pos > Len(Slots) =>
             /\ Len(ActiveListAfter) > 0
             /\ fragment'.captionsBySlot[pos].subtitlerId =
                  ActiveListAfter[(fragment'.captionsBySlot[pos].slotIndex
                                     % Len(ActiveListAfter)) + 1]
      /\ \A pos \in 1..Len(Slots) :
           /\ pos <= Len(fragment'.captionsBySlot)
           /\ fragment'.captionsBySlot[pos].subtitlerId = Slots[pos].subtitlerId
           /\ fragment'.captionsBySlot[pos].slotIndex = Slots[pos].slotIndex
           /\ KeepsCaptions(Slots[pos].captions, fragment'.captionsBySlot[pos].captions)
      /\ (gone' # gone \/ Len(fragment'.subtitlers) < Len(fragment.subtitlers)) =>
           fragment'.captionsBySlot = Slots ]_vars

\* C25 witness: the subtitler of a slot that is still open has disconnected
\* and the subtitler of another has left; both slots hold a caption
C25_Witness ==
  \E p, q \in 1..Len(Slots) :
    /\ Slots[p].subtitlerId \in gone
    /\ Slots[p].endTime = -1
    /\ Slots[p].captions # << >>
    /\ Slots[q].subtitlerId \notin gone
    /\ ~InRoster(fragment, Slots[q].subtitlerId)
    /\ Slots[q].captions # << >>

\* ------------------------------------------------------------------------
\* Slots and joins during a run (C26, C27, C28)
\* ------------------------------------------------------------------------

PendingSlotTimer(kind, pos, due) ==
  \E t \in fragment.slotTimers : t.kind = kind /\ t.slot = pos - 1 /\ t.due = due

\* C26: every slot that has been started reaches its grace end D+G seconds
\* after its start and its finalize 800 ms later, unless the run is stopped
\* first, also when other subtitlers join while the slot is open: during a run
\* a slot that has not reached its grace end has it pending at
\* startTime + (D+G)*1000, and a slot that has reached it did so at that
\* instant and has its finalize pending 800 ms later or behind it.
C26_SlotsRunToFinalize ==
  fragment.active =>
    \A pos \in 1..Len(Slots) :
      LET slot == Slots[pos]
          deadline == SubmitDeadline(fragment, slot)
      IN /\ slot.endTime = -1 => PendingSlotTimer("graceEnd", pos, deadline)
         /\ slot.endTime # -1 =>
              /\ slot.endTime = deadline
              /\ \/ PendingSlotTimer("finalize", pos, deadline + FinalizeSettleMs)
                 \/ HasFinalized(slot.slotIndex)

\* C27: while a run is active and at least R subtitlers stay connected,
\* consecutive slot starts are exactly S = D - O seconds apart, regardless of
\* subtitlers joining during the run.
C27_StrideBetweenStarts ==
  fragment.active =>
    \A k \in 2..Len(Slots) :
      Slots[k].startTime - Slots[k - 1].startTime =
        getFragmentStrideSeconds(fragment) * MsPerSec

\* the run is active and waits for subtitlers: no slot, no stride interval
Waiting(f) ==
  /\ f.active
  /\ f.captionsBySlot = << >>
  /\ ~f.schedulerTimer.on
  /\ f.slotTimers = {}

\* C28: when fragment mode is activated with fewer than R active subtitlers,
\* no slot is created and no stride interval is registered; the run stays so
\* until a join brings the active count to R, and that join starts slot 0 at
\* once with slotIndex 0 and registers a stride interval of period S*1000 ms.
C28_WaitingThenStart ==
  [][ /\ (~fragment.active /\ fragment'.active
            /\ Len(ActiveListAfter) < fragment'.requiredSubtitlers)
           => Waiting(fragment')
      /\ (Waiting(fragment) /\ Len(fragment'.subtitlers) > Len(fragment.subtitlers))
           => IF Len(ActiveListAfter) >= fragment'.requiredSubtitlers
              THEN /\ Len(fragment'.captionsBySlot) = 1
                   /\ fragment'.captionsBySlot[1].slotIndex = 0
                   /\ fragment'.captionsBySlot[1].startTime = now
                   /\ fragment'.schedulerTimer =
                        [on |-> TRUE,
                         period |-> (fragment.slotDuration - fragment.overlapDuration) * 1000,
                         due |-> now + (fragment.slotDuration - fragment.overlapDuration) * 1000]
              ELSE Waiting(fragment')
      /\ (Waiting(fragment) /\ fragment'.active
            /\ Len(fragment'.subtitlers) <= Len(fragment.subtitlers))
           => Waiting(fragment') ]_vars

\* C28 witness: the run was stopped and activated again with an empty roster,
\* then two joins brought the active count to R = 2 and slot 0 was started
C28_Witness ==
  /\ generation = 2
  /\ fragment.active
  /\ Len(getActiveSubtitlers(fragment)) = fragment.requiredSubtitlers
  /\ rosterOps = 2
  /\ Len(Slots) = 1
  /\ Slots[1].slotIndex = 0
  /\ fragment.schedulerTimer.on

\* ------------------------------------------------------------------------
\* POST /api/fragment/config (C29)
\* ------------------------------------------------------------------------

Settings(f) ==
  <<f.slotDuration, f.overlapDuration, f.notifyBefore, f.gracePeriodPercent,
    f.requiredSubtitlers>>

\* C29: a POST /api/fragment/config whose resulting configuration fails
\* validation is answered 400 and leaves slotDuration, overlapDuration,
\* notifyBefore, gracePeriodPercent and requiredSubtitlers as they were, so an
\* active run never continues under a configuration with O >= D or
\* R < minRequired.
C29_RejectedConfigKeepsSettings ==
  /\ [][ \A body \in ConfigTryBodies :
           (PostFragmentConfig(body) /\ PostFragmentConfigAnswer(body).status = 400)
             => Settings(fragment') = Settings(fragment) ]_vars
  /\ [](fragment.active =>
          /\ fragment.overlapDuration < fragment.slotDuration
          /\ fragment.requiredSubtitlers >= getFragmentMinRequiredSubtitlers(fragment))

\* ------------------------------------------------------------------------
\* The flush of a stop (C31)
\* ------------------------------------------------------------------------

\* the positions of pacerLog whose call was made by sendRemainingSlots
FlushCallsOfLog == {n \in 1..Len(pacerLog) : pacerLog[n].by = "flush"}

\* C31: when a stop flushes the remaining slots, they are processed from
\* oldest to newest and the first word of each non-empty flushed slot is
\* scheduled at the moment of the flush (delay 0), not at
\* slot.startTime + delaySec.
C31_FlushScheduledNow ==
  /\ \A m, n \in FlushCallsOfLog :
       m < n => pacerLog[m].slotIndex < pacerLog[n].slotIndex
  /\ \A n \in FlushCallsOfLog :
       /\ pacerLog[n].delayMs = 0
       /\ \A w \in pacerTimers :
            (w.id.call = n /\ w.id.run = generation /\ w.wordIndex = 0)
              => w.due = pacerLog[n].at

\* ------------------------------------------------------------------------
\* The timers of a slot (C32)
\* ------------------------------------------------------------------------

\* the pending timers of a kind of the slot at array index k
TimersOf(f, kind, k) == {t \in f.slotTimers : t.kind = kind /\ t.slot = k}

\* the time after the slot's start at which the timer of a kind is set (ms)
TimerOffset(kind) ==
  CASE kind = "ending" -> (fragment.slotDuration - fragment.notifyBefore) * 1000
    [] kind = "graceStart" -> fragment.slotDuration * 1000
    [] kind = "graceEnd" ->
         (fragment.slotDuration
            + (fragment.slotDuration * fragment.gracePeriodPercent) \div 100) * 1000
    [] OTHER -> 0

\* C32: for each started slot whose timers are not cancelled, the assigned
\* subtitler is sent fragment:ending at start + (D - notifyBefore) s (skipped
\* when that is <= 0), then fragment:grace-start at start + D s, then
\* fragment:auto-send at start + (D+G) s, in this order and each at most once
\* per slot; the open-slot entry is removed in the same step as auto-send and
\* finalize runs 800 ms after it, never earlier.
C32_SlotTimeline ==
  /\ [](\A k \in 0..(Len(Slots) - 1) :
          /\ \A kind \in {"ending", "graceStart", "graceEnd", "finalize"} :
               Cardinality(TimersOf(fragment, kind, k)) <= 1
          /\ TimerOffset("ending") <= 0 => TimersOf(fragment, "ending", k) = {}
          /\ TimersOf(fragment, "graceEnd", k) # {} =>
               /\ now < Slots[k + 1].startTime + TimerOffset("graceStart")
                    => TimersOf(fragment, "graceStart", k) # {}
               /\ (TimerOffset("ending") > 0
                     /\ now < Slots[k + 1].startTime + TimerOffset("ending"))
                    => TimersOf(fragment, "ending", k) # {}
          /\ \A t \in TimersOf(fragment, "finalize", k) :
               /\ Slots[k + 1].endTime # -1
               /\ t.due = Slots[k + 1].endTime + 800)
  /\ [][ \A t \in fragment.slotTimers :
           LET slot == Slots[t.slot + 1]
           IN /\ (Notify(t) /\ t.kind \in {"ending", "graceStart"}) =>
                   /\ now = slot.startTime + TimerOffset(t.kind)
                   /\ TimerOffset(t.kind) > 0
                   /\ t.to = slot.subtitlerId
                   /\ t.kind = "graceStart" => TimersOf(fragment, "ending", t.slot) = {}
                   /\ TimersOf(fragment', t.kind, t.slot) = {}
              /\ GraceEnd(t) =>
                   /\ now = slot.startTime + TimerOffset("graceEnd")
                   /\ t.to = slot.subtitlerId
                   /\ TimersOf(fragment, "ending", t.slot) = {}
                   /\ TimersOf(fragment, "graceStart", t.slot) = {}
                   /\ TimersOf(fragment', "graceEnd", t.slot) = {}
                   /\ slot.subtitlerId # NoSub =>
                        fragment'.openSlotBySubtitlerId[slot.subtitlerId] # slot.slotIndex
                   /\ \E z \in fragment'.slotTimers :
                        z.kind = "finalize" /\ z.slot = t.slot /\ z.due = now + 800
              /\ Finalize(t) =>
                   /\ now = slot.startTime + TimerOffset("graceEnd") + 800
                   /\ TimersOf(fragment', "finalize", t.slot) = {} ]_vars

\* C32 witness: with D = 2 s, notifyBefore = 1 s and a grace of 1 s, slot 0
\* started at 0 has been finalized at 3800 ms: its ending, grace-start and
\* auto-send went out at 1000, 2000 and 3000 ms
C32_Witness ==
  /\ fragment.gracePeriodPercent = 50
  /\ Len(Slots) >= 2
  /\ Slots[1].startTime = 0
  /\ Slots[1].endTime = 3000
  /\ HasFinalized(0)
  /\ now = 3800
  /\ \A kind \in {"ending", "graceStart", "graceEnd", "finalize"} :
       TimersOf(fragment, kind, 0) = {}

\* ------------------------------------------------------------------------
\* Stored captions (C33)
\* ------------------------------------------------------------------------

\* the accepted captions of the slot of a slotIndex, in the order of their
\* acceptance
AcceptedInto(slotIndex) == SelectSeq(gateLog, LAMBDA r : r.slotIndex = slotIndex)

\* C33: every caption stored in a slot was sent by the connection whose id is
\* that slot's assigned subtitler id, and the captions of a slot are stored in
\* the order in which they were accepted, receivedAt non-decreasing along the
\* list; no operation removes or reorders stored captions during a run.
C33_StoredCaptions ==
  /\ [](\A pos \in 1..Len(Slots) :
          LET slot == Slots[pos]
              accepted == AcceptedInto(slot.slotIndex)
          IN /\ Len(accepted) = Len(slot.captions)
             /\ \A n \in 1..Len(slot.captions) :
                  /\ slot.captions[n].subtitlerId = slot.subtitlerId
                  /\ slot.captions[n].text = accepted[n].text
                  /\ slot.captions[n].autoSent = accepted[n].autoSent
                  /\ accepted[n].subtitlerId = slot.subtitlerId
                  /\ n > 1 => accepted[n - 1].receivedAt <= accepted[n].receivedAt)
  /\ [][ \A pos \in 1..Len(Slots) :
           /\ pos <= Len(fragment'.captionsBySlot)
           /\ Len(Slots[pos].captions) <= Len(fragment'.captionsBySlot[pos].captions)
           /\ \A n \in 1..Len(Slots[pos].captions) :
                fragment'.captionsBySlot[pos].captions[n] = Slots[pos].captions[n] ]_vars

\* C33 witness: a slot holds two different captions of its subtitler, the
\* second received later than the first, and the slot has been finalized
C33_Witness ==
  \E pos \in 1..Len(Slots) :
    /\ Len(Slots[pos].captions) = 2
    /\ Slots[pos].captions[1].text # Slots[pos].captions[2].text
    /\ AcceptedInto(Slots[pos].slotIndex)[1].receivedAt
         < AcceptedInto(Slots[pos].slotIndex)[2].receivedAt
    /\ HasFinalized(Slots[pos].slotIndex)

\* ------------------------------------------------------------------------
\* The answer to fragment:auto-send (C34)
\* ------------------------------------------------------------------------

\* the step appends an auto-sent caption of subtitler s to the slot at pos
AppendsAuto(s, pos) ==
  /\ pos <= Len(fragment'.captionsBySlot)
  /\ Len(fragment'.captionsBySlot[pos].captions) = Len(Slots[pos].captions) + 1
  /\ LET c == fragment'.captionsBySlot[pos].captions[Len(Slots[pos].captions) + 1]
     IN c.autoSent /\ c.subtitlerId = s

\* the slots of s whose fragment:auto-send went out less than 800 ms ago: the
\* client answers it at once with its auto-sent caption
JustAutoSent(s) ==
  {k \in 1..Len(Slots) :
     /\ Slots[k].subtitlerId = s
     /\ Slots[k].endTime # -1
     /\ now < Slots[k].endTime + FinalizeSettleMs}

\* C34: an auto-sent caption that a subtitler sends in response to the
\* fragment:auto-send of slot i is appended to slot i and not to another slot
\* of that subtitler, also when R*S = D+G and the subtitler's next slot starts
\* at the instant at which the grace of slot i ends.
C34_AutoSendLandsInItsSlot ==
  [][ \A s \in Subs : \A pos \in 1..Len(Slots) :
        (AppendsAuto(s, pos) /\ JustAutoSent(s) # {}) => pos \in JustAutoSent(s) ]_vars

\* ------------------------------------------------------------------------
\* Accepted captions and the emitted text (C35)
\* ------------------------------------------------------------------------

\* C35: every caption accepted by the submission gate is part of the raw text
\* from which that slot's emitted finalText is computed: no caption is ever
\* accepted into a slot that has already been sent.
C35_NoCaptionAfterSent ==
  /\ [][ \A pos \in 1..Len(Slots) :
           (Slots[pos].sent /\ pos <= Len(fragment'.captionsBySlot))
             => fragment'.captionsBySlot[pos].captions = Slots[pos].captions ]_vars
  /\ [](\A n \in 1..Len(pacerLog) : \A pos \in 1..Len(Slots) :
          Slots[pos].slotIndex = pacerLog[n].slotIndex
            => pacerLog[n].raw = getSlotRawText(Slots[pos]))

\* ------------------------------------------------------------------------
\* The order of emission (C36)
\* ------------------------------------------------------------------------

\* C36: within one run, slots are handed to the delivery pacer in strictly
\* increasing slotIndex order: a slot j is never emitted while a slot i < j
\* with non-empty raw text is still unsent.
C36_EmittedInOrder ==
  /\ [](\A m, n \in 1..Len(pacerLog) :
          m < n => pacerLog[m].slotIndex < pacerLog[n].slotIndex)
  /\ [][ \A n \in 1..Len(pacerLog') :
           (n > Len(pacerLog) /\ Len(fragment'.captionsBySlot) = Len(Slots)) =>
             \A pos \in 1..Len(Slots) :
               (Slots[pos].slotIndex < pacerLog'[n].slotIndex
                  /\ getSlotRawText(Slots[pos]) # << >>)
                 => fragment'.captionsBySlot[pos].sent ]_vars

\* ------------------------------------------------------------------------
\* fragment:status and the gate (C37)
\* ------------------------------------------------------------------------

\* a manual caption of subtitler s
ManualCaptionOf(s) == [text |-> TextAB, subtitlerId |-> s, autoSent |-> FALSE]

\* C37: the individualized fragment:status agrees with the submission gate:
\* at any instant of an active run, a joined subtitler's status has
\* isMyTurn = true if and only if a manual caption sent by that subtitler at
\* that instant would be accepted by the gate.
C37_StatusAgreesWithGate ==
  fragment.active =>
    \A k \in 1..Len(getActiveSubtitlers(fragment)) :
      LET s == getActiveSubtitlers(fragment)[k]
      IN IsMyTurn(fragment, s) <=> (GateSlotPos(fragment, ManualCaptionOf(s)) # 0)

\* ------------------------------------------------------------------------
\* What a stop resets (C38)
\* ------------------------------------------------------------------------

\* C38: stopping an active run (POST /api/fragment/stop, POST /api/live/stop
\* or the exit of the transcoder) empties the roster, also of the subtitlers
\* whose connections stay open, resets currentSlotIndex to 0 and the slot
\* history, the fused history and the open-slot map to empty, resets
\* slotDuration, overlapDuration and notifyBefore to their defaults and
\* preserves gracePeriodPercent and requiredSubtitlers; a connected subtitler
\* is in the roster of the next run only after joining again.
C38_StopResets ==
  [][ /\ (fragment.active /\ ~fragment'.active) =>
           /\ fragment'.subtitlers = << >>
           /\ fragment'.currentSlotIndex = 0
           /\ fragment'.captionsBySlot = << >>
           /\ fragment'.fusedCaptions = << >>
           /\ \A s \in Subs : fragment'.openSlotBySubtitlerId[s] = NoSlot
           /\ fragment'.slotDuration = defaultSlotDuration
           /\ fragment'.overlapDuration = defaultOverlapDuration
           /\ fragment'.notifyBefore = defaultNotifyBefore
           /\ fragment'.gracePeriodPercent = fragment.gracePeriodPercent
           /\ fragment'.requiredSubtitlers = fragment.requiredSubtitlers
      /\ Len(fragment'.subtitlers) > Len(fragment.subtitlers) =>
           /\ rosterOps' = rosterOps + 1
           /\ Len(fragment'.subtitlers) = Len(fragment.subtitlers) + 1 ]_vars

=============================================================================

